---- MODULE Spec2Model ----
(***************************************************************************)
(* Tollbooth Authority: the certification saga (server.certify_credits),   *)
(* the DPYC membership registry cache (registry.DPYCRegistry) and the      *)
(* anti-replay tracker (replay.ReplayTracker).                             *)
(*                                                                         *)
(* certify_credits is a coroutine: it runs atomically between two awaits   *)
(* and may be interleaved with other calls at every await.  One action of  *)
(* this module is one such atomic segment.                                 *)
(***************************************************************************)
EXTENDS Integers, Sequences, FiniteSets, TLC

\* ------------------------------------------------------------------------
\* Bounds of the model
\* ------------------------------------------------------------------------
MaxTime == 1       \* ticks of the monotonic clock
MaxFund == 2       \* largest pre-funded operator balance
MaxSupply == 2     \* largest pre-funded upstream supply balance
MaxFeeAmount == 110 \* largest amount_sats of the fee runs (besides 1000)
MaxDirectCalls == 3 \* direct calls the harness makes in one run
MaxClock == 3      \* ticks of the clock in the runs of the direct caller

CallOrder == <<"c1", "c2">>           \* the calls, in the order they start
Calls == {CallOrder[i] : i \in DOMAIN CallOrder}
Operators == {"npub_a", "npub_b"}     \* operator identities
Amounts == {-1, 0, 1, 2}              \* amount_sats arguments
TaxRatePercents == {50}               \* settings.tax_rate_percent values
TaxMinSats == {1}                     \* settings.tax_min_sats values
CertTtls == {1}                       \* settings.certificate_ttl_seconds values
LongCertTtls == {2}                   \* a TTL that outlasts a tick of the clock
RegistryTtls == {1}                   \* settings.dpyc_registry_cache_ttl_seconds
FeeAmounts == (1..MaxFeeAmount) \cup {1000}  \* amount_sats of the fee runs
FeeRatePercents == {2, 3, 50}         \* settings.tax_rate_percent, fee runs
FeeMinSats == {1, 10}                 \* settings.tax_min_sats, fee runs
ClaimTaxes == {0, 2, 20, 500}         \* tax_sats given to create_certificate_claims
ReplayIds == {1, 2}                   \* jti values replayed by the direct caller
ReplayTtls == {1, 2}                  \* ReplayTracker ttl_seconds
LookupTtls == {1, 2}                  \* DPYCRegistry cache_ttl_seconds, lookup runs
SigningKeys == {"key_a", "key_b"}      \* private keys a signer is built from
ClockSteps == {0, 1}                  \* whole seconds between two clock readings of one step
SignTtls == {1, 2}                    \* ttl_seconds of the signed certificates
Users == {"u1", "u2"}                 \* fastmcp-cloud-user header values
MalformedNpubs == {"npub1short", "nsec1long"}  \* npub arguments of a bad shape
NpubArgs == Operators \cup MalformedNpubs
Callers == Users \cup {"None"}           \* None: a request without the user header
FeeFund == 1000                       \* the operator's balance in the fee runs

\* ------------------------------------------------------------------------
\* Program constants
\* ------------------------------------------------------------------------
SUPPLY_USER_ID == "__upstream_supply__"
None == "None"
AccountKeys == Operators \cup {SUPPLY_USER_ID}

VARIABLES
    settings,      \* AuthoritySettings, immutable for the process lifetime
    ledgers,       \* LedgerCache: account key -> UserLedger
    dirty,         \* LedgerCache: account keys marked dirty
    reg_cache,     \* DPYCRegistry._cache
    reg_cache_time,\* DPYCRegistry._cache_time
    seen,          \* ReplayTracker._seen, in insertion order
    now,           \* time.monotonic()
    next_jti,      \* uuid4 source: the next fresh certificate id
    calls,         \* the certify_credits coroutines
    certs,         \* certificates handed out
    issuedFees,    \* operator -> sum of fee_sats of successful calls
    issuedAmount,  \* sum of amount_sats of successful calls
    harness,       \* a direct caller of the components: its last call
    _dpyc_sessions,     \* server._dpyc_sessions: Horizon user id -> npub
    _shutdown_triggered, \* server._shutdown_triggered
    _reconciled_users,  \* server._reconciled_users
    vault               \* the vault: account key -> the ledger last written

vars == <<settings, ledgers, dirty, reg_cache, reg_cache_time, seen, now,
          next_jti, calls, certs, issuedFees, issuedAmount, harness,
          _dpyc_sessions, _shutdown_triggered, _reconciled_users, vault>>

\* the module-level session state of server.py
sessions == <<_dpyc_sessions, _shutdown_triggered, _reconciled_users>>


\* ------------------------------------------------------------------------
\* FeePolicy: settings.certify_pricing and ToolPricing.compute
\* ------------------------------------------------------------------------
Max(a, b) == IF a >= b THEN a ELSE b

\* math.ceil(n / d) for n >= 0, d > 0
CeilDiv(n, d) == (n + d - 1) \div d

\* mutant: the pricing is built without the minimum
certify_pricing_NoMinimum(s) ==
    [rate_percent |-> s.tax_rate_percent, min_cost |-> 0]

\* AuthoritySettings.certify_pricing: ToolPricing(rate_percent, "amount_sats", min_cost)
certify_pricing(s) ==
    [rate_percent |-> s.tax_rate_percent, min_cost |-> s.tax_min_sats]

\* ToolPricing.compute(amount_sats=...)
compute(pricing, amount_sats) ==
    Max(pricing.min_cost, CeilDiv(amount_sats * pricing.rate_percent, 100))

\* ------------------------------------------------------------------------
\* UserLedger (tollbooth library): debit / rollback_debit / credit_deposit
\* ------------------------------------------------------------------------
NewLedger ==
    [balance_api_sats |-> 0, total_deposited_api_sats |-> 0,
     total_consumed_api_sats |-> 0]

credit_deposit(ledger, amount) ==
    [ledger EXCEPT !.balance_api_sats = @ + amount,
                   !.total_deposited_api_sats = @ + amount]

\* debit(reason, amount) -> bool: refuses when the balance does not cover it
debit(ledger, amount) ==
    IF amount < 0 \/ ledger.balance_api_sats < amount
    THEN [ok |-> FALSE, ledger |-> ledger]
    ELSE [ok |-> TRUE,
          ledger |-> [ledger EXCEPT !.balance_api_sats = @ - amount,
                                    !.total_consumed_api_sats = @ + amount]]

\* rollback_debit(reason, amount): the compensating credit of a debit
rollback_debit(ledger, amount) ==
    [ledger EXCEPT !.balance_api_sats = @ + amount,
                   !.total_consumed_api_sats = Max(0, @ - amount)]

\* ------------------------------------------------------------------------
\* ReplayTracker
\* ------------------------------------------------------------------------
RECURSIVE _prune_OneSecondEarly(_, _, _)
\* mutant: an entry is dropped one second before its TTL has passed
_prune_OneSecondEarly(entries, t, ttl) ==
    IF entries = <<>> THEN entries
    ELSE IF Head(entries).ts > t - ttl + 1 THEN entries
    ELSE _prune_OneSecondEarly(Tail(entries), t, ttl)

RECURSIVE _prune_KeepsAtTtl(_, _, _)
\* mutant: an entry whose age is exactly the TTL is kept
_prune_KeepsAtTtl(entries, t, ttl) ==
    IF entries = <<>> THEN entries
    ELSE IF Head(entries).ts >= t - ttl THEN entries
    ELSE _prune_KeepsAtTtl(Tail(entries), t, ttl)

\* mutant: only the oldest entry is looked at
_prune_OnlyOldest(entries, t, ttl) ==
    IF entries = <<>> THEN entries
    ELSE IF Head(entries).ts > t - ttl THEN entries
    ELSE Tail(entries)

RECURSIVE _prune(_, _, _)
\* _prune() at monotonic time t: drop from the oldest end up to the first
\* entry with ts > t - ttl
_prune(entries, t, ttl) ==
    IF entries = <<>> THEN entries
    ELSE IF Head(entries).ts > t - ttl THEN entries
    ELSE _prune(Tail(entries), t, ttl)

SeenJtis(entries) == {entries[i].jti : i \in DOMAIN entries}

\* mutant: a replayed id has its timestamp refreshed in place
check_and_record_Retimestamps(entries, jti, t, ttl) ==
    LET pruned == _prune(entries, t, ttl) IN
    IF jti \in SeenJtis(pruned)
    THEN [accepted |-> FALSE,
          seen |-> [i \in DOMAIN pruned |->
                       IF pruned[i].jti = jti THEN [jti |-> jti, ts |-> t]
                       ELSE pruned[i]]]
    ELSE [accepted |-> TRUE, seen |-> Append(pruned, [jti |-> jti, ts |-> t])]

\* check_and_record(jti) at monotonic time t -> (accepted, _seen)
check_and_record(entries, jti, t, ttl) ==
    LET pruned == _prune(entries, t, ttl) IN
    IF jti \in SeenJtis(pruned)
    THEN [accepted |-> FALSE, seen |-> pruned]
    ELSE [accepted |-> TRUE, seen |-> Append(pruned, [jti |-> jti, ts |-> t])]

\* ------------------------------------------------------------------------
\* DPYCRegistry
\* ------------------------------------------------------------------------
Member(npub, status) == [isdict |-> TRUE, npub |-> npub, status |-> status]
\* a list element that is not a JSON object (member.get raises AttributeError)
NotADict == [isdict |-> FALSE, npub |-> "", status |-> ""]

MemberLists ==
    { <<Member("npub_a", "active")>>,
      <<Member("npub_a", "suspended"), Member("npub_b", "active"),
        Member("npub_a", "active")>>,
      <<Member("npub_a", "active"), NotADict>> }

\* DPYCRegistry._cache: None, or the member list of the last good fetch
NoCache == [present |-> FALSE, members |-> <<>>]
Cached(members) == [present |-> TRUE, members |-> members]

\* what the HTTP GET of the registry URL can produce
Responses ==
    { [kind |-> k, data |-> <<>>] :
        k \in {"http_error", "parse_error", "object_no_members", "scalar"} }
    \cup { [kind |-> k, data |-> m] : k \in {"list", "object"}, m \in MemberLists }

\* check_membership's loop over the member list
RECURSIVE check_membership(_, _)
check_membership(members, npub) ==
    IF members = <<>> THEN [kind |-> "RegistryError", msg |-> "not found"]
    ELSE IF ~Head(members).isdict THEN [kind |-> "AttributeError", msg |-> ""]
    ELSE IF Head(members).npub = npub
         THEN IF Head(members).status # "active"
              THEN [kind |-> "RegistryError", msg |-> "not active"]
              ELSE [kind |-> "member", msg |-> ""]
    ELSE check_membership(Tail(members), npub)

\* mutant: a cache whose age is exactly the TTL is still served
CacheLive_AtTtl(cache, cache_time, t, ttl) ==
    cache.present /\ (t - cache_time) <= ttl

\* _fetch's cache test at monotonic time t
CacheLive(cache, cache_time, t, ttl) ==
    cache.present /\ (t - cache_time) < ttl

\* _fetch after the GET returned: the member list, or the RegistryError raised
ParseResponse(resp) ==
    CASE resp.kind = "http_error" -> [ok |-> FALSE, msg |-> "Registry fetch failed", data |-> <<>>]
      [] resp.kind = "parse_error" -> [ok |-> FALSE, msg |-> "Registry parse failed", data |-> <<>>]
      [] resp.kind = "object_no_members" -> [ok |-> FALSE, msg |-> "missing members list", data |-> <<>>]
      [] resp.kind = "scalar" -> [ok |-> FALSE, msg |-> "not a list or object", data |-> <<>>]
      [] OTHER -> [ok |-> TRUE, msg |-> "", data |-> resp.data]


\* ------------------------------------------------------------------------
\* certify_credits: the coroutine's local state
\* ------------------------------------------------------------------------
Event(op, acct, reason, amount) ==
    [op |-> op, acct |-> acct, reason |-> reason, amount |-> amount]

Balances(L) == [k \in AccountKeys |-> L[k].balance_api_sats]

IdleCall ==
    [pc |-> "idle", operator_id |-> None, amount_sats |-> 0, fee_sats |-> 0,
     net_sats |-> 0, supply |-> None, fetch_now |-> 0, jti |-> 0,
     expiration |-> 0, outcome |-> "none", error |-> "", trace |-> <<>>,
     consulted |-> NoCache,
     pre |-> [k \in AccountKeys |-> 0], overlapped |-> FALSE]

\* the part of the process state one segment of certify_credits works on
State(c) ==
    [ledgers |-> ledgers, dirty |-> dirty, reg_cache |-> reg_cache,
     reg_cache_time |-> reg_cache_time, seen |-> seen, next_jti |-> next_jti,
     call |-> calls[c]]

Log(s, ev) == [s EXCEPT !.call.trace = Append(@, ev)]

\* return {"success": False, "error": ...}
ReturnFailure(s, error) ==
    [s EXCEPT !.call.pc = "done", !.call.outcome = "failure", !.call.error = error]

\* an exception leaves certify_credits
Raise(s, error) ==
    [s EXCEPT !.call.pc = "done", !.call.outcome = "raised", !.call.error = error]

\* mutant: a jti the tracker rejects fails the call
Issue_ReplayVetoes(s) ==
    LET jti == s.next_jti
        rec == check_and_record(s.seen, jti, now, settings.certificate_ttl_seconds)
        s1 == [s EXCEPT !.next_jti = @ + 1,
                        !.seen = rec.seen,
                        !.call.jti = jti,
                        !.call.expiration = now + settings.certificate_ttl_seconds,
                        !.call.pc = "flush"]
        s2 == Log(s1, Event("check_and_record", None, "", jti))
        s3 == Log(s2, Event("sign", s.call.operator_id, "", jti))
    IN IF rec.accepted THEN Log(s3, Event("flush_user", s.call.operator_id, "", 0))
       ELSE ReturnFailure(s2, "Certificate replay detected")

\* mutant: the certificate id is not drawn afresh for each call
Issue_ReusesJti(s) ==
    LET jti == s.next_jti
        rec == check_and_record(s.seen, jti, now, settings.certificate_ttl_seconds)
        s1 == [s EXCEPT !.seen = rec.seen,
                        !.call.jti = jti,
                        !.call.expiration = now + settings.certificate_ttl_seconds,
                        !.call.pc = "flush"]
        s2 == Log(s1, Event("check_and_record", None, "", jti))
        s3 == Log(s2, Event("sign", s.call.operator_id, "", jti))
    IN Log(s3, Event("flush_user", s.call.operator_id, "", 0))

\* mutant: the certificate is signed before its id is recorded
Issue_SignsBeforeRecording(s) ==
    LET jti == s.next_jti
        rec == check_and_record(s.seen, jti, now, settings.certificate_ttl_seconds)
        s1 == [s EXCEPT !.next_jti = @ + 1,
                        !.seen = rec.seen,
                        !.call.jti = jti,
                        !.call.expiration = now + settings.certificate_ttl_seconds,
                        !.call.pc = "flush"]
        s2 == Log(s1, Event("sign", s.call.operator_id, "", jti))
        s3 == Log(s2, Event("check_and_record", None, "", jti))
    IN Log(s3, Event("flush_user", s.call.operator_id, "", 0))

\* lines 788-811: jti, claims, replay.check_and_record, sign, then await flush_user
Issue(s) ==
    LET jti == s.next_jti
        rec == check_and_record(s.seen, jti, now, settings.certificate_ttl_seconds)
        s1 == [s EXCEPT !.next_jti = @ + 1,
                        !.seen = rec.seen,
                        !.call.jti = jti,
                        !.call.expiration = now + settings.certificate_ttl_seconds,
                        !.call.pc = "flush"]
        s2 == Log(s1, Event("check_and_record", None, "", jti))
        s3 == Log(s2, Event("sign", s.call.operator_id, "", jti))
    IN Log(s3, Event("flush_user", s.call.operator_id, "", 0))

\* mutant: the handler forgets the supply credit-back
OnRegistryError_NoSupplyRollback(s, msg) ==
    LET op == s.call.operator_id
        s1 == Log([s EXCEPT !.ledgers[op] = rollback_debit(@, s.call.fee_sats)],
                  Event("rollback_debit", op, "certify_credits", s.call.fee_sats))
    IN ReturnFailure(s1, "DPYC membership check failed")

\* mutant: the handler credits the operator back the purchase amount
OnRegistryError_RollsBackAmount(s, msg) ==
    LET op == s.call.operator_id
        s1 == Log([s EXCEPT !.ledgers[op] = rollback_debit(@, s.call.amount_sats)],
                  Event("rollback_debit", op, "certify_credits", s.call.amount_sats))
        s2 == IF s.call.supply # None
              THEN Log([s1 EXCEPT !.ledgers[SUPPLY_USER_ID] =
                                     rollback_debit(@, s.call.amount_sats)],
                       Event("rollback_debit", SUPPLY_USER_ID, "certify_supply",
                             s.call.amount_sats))
              ELSE s1
    IN ReturnFailure(s2, "DPYC membership check failed")

\* lines 782-786: the RegistryError handler
OnRegistryError(s, msg) ==
    LET op == s.call.operator_id
        s1 == Log([s EXCEPT !.ledgers[op] = rollback_debit(@, s.call.fee_sats)],
                  Event("rollback_debit", op, "certify_credits", s.call.fee_sats))
        s2 == IF s.call.supply # None
              THEN Log([s1 EXCEPT !.ledgers[SUPPLY_USER_ID] =
                                     rollback_debit(@, s.call.amount_sats)],
                       Event("rollback_debit", SUPPLY_USER_ID, "certify_supply",
                             s.call.amount_sats))
              ELSE s1
    IN ReturnFailure(s2, "DPYC membership check failed")

\* mutant: a RegistryError is swallowed and the certificate issued (fail open)
AfterMembership_FailOpen(s, members) ==
    LET r == check_membership(members, s.call.operator_id)
        s1 == [s EXCEPT !.call.consulted = Cached(members)]
    IN CASE r.kind = "member" -> Issue(s1)
         [] r.kind = "RegistryError" -> Issue(s1)
         [] OTHER -> Raise(s1, r.kind)

\* lines 781-786 once check_membership has its member list
AfterMembership(s, members) ==
    LET r == check_membership(members, s.call.operator_id)
        s1 == [s EXCEPT !.call.consulted = Cached(members)]
    IN CASE r.kind = "member" -> Issue(s1)
         [] r.kind = "RegistryError" -> OnRegistryError(s1, r.msg)
         [] OTHER -> Raise(s1, r.kind)

\* mutant: the registry is asked whatever dpyc_enforce_membership says
MembershipStage_AlwaysChecks(s) ==
    LET s1 == Log(s, Event("check_membership", s.call.operator_id, "", 0)) IN
    IF CacheLive(s.reg_cache, s.reg_cache_time, now,
                 settings.dpyc_registry_cache_ttl_seconds)
    THEN AfterMembership(s1, s.reg_cache.members)
    ELSE [s1 EXCEPT !.call.pc = "fetch", !.call.fetch_now = now]

\* lines 777-781: _get_dpyc_registry, then check_membership up to its first await
MembershipStage(s) ==
    IF ~settings.dpyc_enforce_membership THEN Issue(s)
    ELSE LET s1 == Log(s, Event("check_membership", s.call.operator_id, "", 0)) IN
         IF CacheLive(s.reg_cache, s.reg_cache_time, now,
                      settings.dpyc_registry_cache_ttl_seconds)
         THEN AfterMembership(s1, s.reg_cache.members)
         ELSE [s1 EXCEPT !.call.pc = "fetch", !.call.fetch_now = now]


\* mutant: the result of ledger.debit is not tested
OperatorDebitStep_IgnoreRefusal(s) ==
    LET op == s.call.operator_id
        fee == s.call.fee_sats
        r == debit(s.ledgers[op], fee)
        s1 == Log([s EXCEPT !.ledgers[op] = r.ledger],
                  Event("debit", op, "certify_credits", fee))
        s2 == Log([s1 EXCEPT !.dirty = @ \cup {op}], Event("mark_dirty", op, "", 0))
    IN IF settings.upstream_authority_address # ""
       THEN Log([s2 EXCEPT !.call.pc = "get_supply"],
                Event("get", SUPPLY_USER_ID, "", 0))
       ELSE MembershipStage(s2)

\* mutant: a refused debit is "rolled back" although nothing was debited
OperatorDebitStep_RollbackOnRefusal(s) ==
    LET op == s.call.operator_id
        fee == s.call.fee_sats
        r == debit(s.ledgers[op], fee)
        s1 == Log([s EXCEPT !.ledgers[op] = r.ledger],
                  Event("debit", op, "certify_credits", fee))
        s2 == Log([s1 EXCEPT !.dirty = @ \cup {op}], Event("mark_dirty", op, "", 0))
    IN IF ~r.ok
       THEN ReturnFailure(
                Log([s EXCEPT !.ledgers[op] = rollback_debit(@, fee)],
                    Event("debit_refused", op, "certify_credits", fee)),
                "Insufficient credit balance")
       ELSE IF settings.upstream_authority_address # ""
            THEN Log([s2 EXCEPT !.call.pc = "get_supply"],
                     Event("get", SUPPLY_USER_ID, "", 0))
            ELSE MembershipStage(s2)

\* mutant: the supply account is fetched whether or not an upstream is set
OperatorDebitStep_AlwaysSupply(s) ==
    LET op == s.call.operator_id
        fee == s.call.fee_sats
        r == debit(s.ledgers[op], fee)
        s1 == Log([s EXCEPT !.ledgers[op] = r.ledger],
                  Event("debit", op, "certify_credits", fee))
        s2 == Log([s1 EXCEPT !.dirty = @ \cup {op}], Event("mark_dirty", op, "", 0))
    IN IF ~r.ok
       THEN ReturnFailure(Log(s, Event("debit_refused", op, "certify_credits", fee)),
                          "Insufficient credit balance")
       ELSE Log([s2 EXCEPT !.call.pc = "get_supply"],
                Event("get", SUPPLY_USER_ID, "", 0))

\* lines 753-764: the operator debit, after cache.get(operator_id) returned
OperatorDebitStep(s) ==
    LET op == s.call.operator_id
        fee == s.call.fee_sats
        r == debit(s.ledgers[op], fee)
        s1 == Log([s EXCEPT !.ledgers[op] = r.ledger],
                  Event("debit", op, "certify_credits", fee))
        s2 == Log([s1 EXCEPT !.dirty = @ \cup {op}], Event("mark_dirty", op, "", 0))
    IN IF ~r.ok
       THEN ReturnFailure(Log(s, Event("debit_refused", op, "certify_credits", fee)),
                          "Insufficient credit balance")
       ELSE IF settings.upstream_authority_address # ""
            THEN Log([s2 EXCEPT !.call.pc = "get_supply"],
                     Event("get", SUPPLY_USER_ID, "", 0))
            ELSE MembershipStage(s2)

\* mutant: the fee debit is not rolled back when the supply is short
OnSupplyShort_NoRollback(s) ==
    ReturnFailure(Log(s, Event("debit_refused", SUPPLY_USER_ID, "certify_supply",
                               s.call.amount_sats)),
                  "Insufficient upstream supply")

\* lines 766-774: the supply debit was refused
OnSupplyShort(s) ==
    LET op == s.call.operator_id
        s1 == Log(s, Event("debit_refused", SUPPLY_USER_ID, "certify_supply",
                           s.call.amount_sats))
        s2 == Log([s1 EXCEPT !.ledgers[op] = rollback_debit(@, s.call.fee_sats)],
                  Event("rollback_debit", op, "certify_credits", s.call.fee_sats))
    IN ReturnFailure(s2, "Insufficient upstream supply")

\* mutant: the result of supply.debit is not tested
SupplyDebitStep_IgnoreRefusal(s) ==
    LET amount == s.call.amount_sats
        s0 == [s EXCEPT !.call.supply = SUPPLY_USER_ID]
        r == debit(s.ledgers[SUPPLY_USER_ID], amount)
        s1 == Log([s0 EXCEPT !.ledgers[SUPPLY_USER_ID] = r.ledger],
                  Event("debit", SUPPLY_USER_ID, "certify_supply", amount))
        s2 == Log([s1 EXCEPT !.dirty = @ \cup {SUPPLY_USER_ID}],
                  Event("mark_dirty", SUPPLY_USER_ID, "", 0))
    IN MembershipStage(s2)

\* mutant: the supply is debited by the fee, not by the amount
SupplyDebitStep_DebitsFee(s) ==
    LET amount == s.call.fee_sats
        s0 == [s EXCEPT !.call.supply = SUPPLY_USER_ID]
        r == debit(s.ledgers[SUPPLY_USER_ID], amount)
        s1 == Log([s0 EXCEPT !.ledgers[SUPPLY_USER_ID] = r.ledger],
                  Event("debit", SUPPLY_USER_ID, "certify_supply", amount))
        s2 == Log([s1 EXCEPT !.dirty = @ \cup {SUPPLY_USER_ID}],
                  Event("mark_dirty", SUPPLY_USER_ID, "", 0))
    IN IF ~r.ok THEN OnSupplyShort(s0) ELSE MembershipStage(s2)

\* lines 764-775: the supply debit, after cache.get(SUPPLY_USER_ID) returned
SupplyDebitStep(s) ==
    LET amount == s.call.amount_sats
        s0 == [s EXCEPT !.call.supply = SUPPLY_USER_ID]
        r == debit(s.ledgers[SUPPLY_USER_ID], amount)
        s1 == Log([s0 EXCEPT !.ledgers[SUPPLY_USER_ID] = r.ledger],
                  Event("debit", SUPPLY_USER_ID, "certify_supply", amount))
        s2 == Log([s1 EXCEPT !.dirty = @ \cup {SUPPLY_USER_ID}],
                  Event("mark_dirty", SUPPLY_USER_ID, "", 0))
    IN IF ~r.ok THEN OnSupplyShort(s0) ELSE MembershipStage(s2)

\* registry.py lines 54-75 and 37-45, after the GET returned resp
FetchDoneStep(s, resp) ==
    LET p == ParseResponse(resp) IN
    IF ~p.ok THEN OnRegistryError(s, p.msg)
    ELSE AfterMembership([s EXCEPT !.reg_cache = Cached(p.data),
                                   !.reg_cache_time = s.call.fetch_now],
                         p.data)

\* ------------------------------------------------------------------------
\* certificate.create_certificate_claims
\* ------------------------------------------------------------------------
\* jti is the uuid4 drawn and t the clock reading; an absent authority_npub
\* key is None
create_certificate_claims(operator_id, amount_sats, tax_sats, ttl_seconds, authority_npub, jti, t) ==
    [jti |-> jti,
     sub |-> operator_id,
     iat |-> t,
     exp |-> t + ttl_seconds,
     amount_sats |-> amount_sats,
     tax_paid_sats |-> tax_sats,
     net_sats |-> amount_sats - tax_sats,
     dpyc_protocol |-> "dpyp-01-base-certificate",
     authority_npub |-> IF authority_npub # "" THEN authority_npub ELSE None]

\* ------------------------------------------------------------------------
\* Signers: signing.AuthoritySigner and nostr_signing.AuthorityNostrSigner
\* ------------------------------------------------------------------------
\* Keys and signatures are symbolic terms: a signature names the private key
\* that made it and the payload it covers, and is valid under the public key
\* of that private key for that payload only.
PublicOf(private_key) == [pub_of |-> private_key]
Signature(private_key, payload) == [by |-> private_key, over |-> payload]
SignatureValid(sig, payload, public_key) ==
    public_key = PublicOf(sig.by) /\ sig.over = payload

\* jwt.encode(claims, key, algorithm)
jwt_encode(claims, private_key, algorithm) ==
    [claims |-> claims, alg |-> algorithm,
     sig |-> Signature(private_key, [claims |-> claims, alg |-> algorithm])]

\* jwt.decode(token, key, algorithms=["EdDSA"]) at wall-clock time t: the
\* claims are returned ("ok") or the named error is raised
jwt_decode(token, public_key, t) ==
    IF \/ token.alg # "EdDSA"
       \/ ~SignatureValid(token.sig, [claims |-> token.claims, alg |-> token.alg],
                          public_key)
    THEN "InvalidSignatureError"
    ELSE IF token.claims.exp <= t THEN "ExpiredSignatureError"
    ELSE "ok"

AuthoritySigner(private_key_b64) == [private_key |-> private_key_b64]
public_key_pem(signer) == PublicOf(signer.private_key)
sign_certificate(signer, claims) == jwt_encode(claims, signer.private_key, "EdDSA")
verify_certificate(token, pem, t) == jwt_decode(token, pem, t)

NOSTR_CERT_KIND == 30079
AuthorityNostrSigner(nsec) == [private_key |-> nsec, pubkey_hex |-> PublicOf(nsec)]

\* mutant: the event carries the operator's key in its pubkey field
sign_certificate_event_OperatorPubkey(signer, claims, jti, operator_npub, expiration, t) ==
    LET body == [kind |-> NOSTR_CERT_KIND,
                 content |-> [sub |-> claims.sub,
                              amount_sats |-> claims.amount_sats,
                              tax_paid_sats |-> claims.tax_paid_sats,
                              net_sats |-> claims.net_sats,
                              dpyc_protocol |-> claims.dpyc_protocol],
                 tags |-> [d |-> jti, p |-> operator_npub, t |-> "tollbooth-cert",
                           L |-> "dpyc.tollbooth", expiration |-> expiration],
                 pubkey |-> PublicOf(operator_npub),
                 created_at |-> t]
    IN [body |-> body, sig |-> Signature(signer.private_key, body)]

\* sign_certificate_event at wall-clock time t: the signed kind 30079 event
sign_certificate_event(signer, claims, jti, operator_npub, expiration, t) ==
    LET body == [kind |-> NOSTR_CERT_KIND,
                 content |-> [sub |-> claims.sub,
                              amount_sats |-> claims.amount_sats,
                              tax_paid_sats |-> claims.tax_paid_sats,
                              net_sats |-> claims.net_sats,
                              dpyc_protocol |-> claims.dpyc_protocol],
                 tags |-> [d |-> jti, p |-> operator_npub, t |-> "tollbooth-cert",
                           L |-> "dpyc.tollbooth", expiration |-> expiration],
                 pubkey |-> signer.pubkey_hex,
                 created_at |-> t]
    IN [body |-> body, sig |-> Signature(signer.private_key, body)]

\* pynostr Event.verify(): the signature is valid for the event under the
\* key in its pubkey field
event_verify(event) == SignatureValid(event.sig, event.body, event.body.pubkey)

\* ------------------------------------------------------------------------
\* The direct caller
\* ------------------------------------------------------------------------
\* n calls completed so far; op, arg and value are the last call and its
\* result; pc is "fetch" while a check_membership awaits the GET it started
\* at fetch_now; fetched tells whether the last call made the registry issue
\* a GET; fetch_ok_at is the start time of the last GET that succeeded
\* (-1: none yet) and invalidated whether invalidate_cache() was called since
HarnessIdle ==
    [n |-> 0, op |-> "none", arg |-> None, value |-> None, pc |-> "idle",
     fetch_now |-> 0, fetched |-> FALSE, fetch_ok_at |-> -1,
     invalidated |-> FALSE]

\* ------------------------------------------------------------------------
\* The process
\* ------------------------------------------------------------------------
Settings ==
    [tax_rate_percent : TaxRatePercents,
     tax_min_sats : TaxMinSats,
     upstream_authority_address : {"", "upstream@example.com"},
     certificate_ttl_seconds : CertTtls,
     dpyc_registry_cache_ttl_seconds : RegistryTtls,
     dpyc_enforce_membership : BOOLEAN,
     tollbooth_nostr_operator_nsec : {"", "nsec1"},
     neon_database_url : {"", "postgres://"}]

Funded(n) == credit_deposit(NewLedger, n)

Init ==
    /\ settings \in Settings
    \* every operator has pre-funded the same balance; the supply account is
    \* funded only in a deployment with an upstream chain
    /\ \E f \in 0..MaxFund,
          fs \in IF settings.upstream_authority_address = "" THEN {0}
                 ELSE 0..MaxSupply :
          ledgers = [k \in AccountKeys |->
                        IF k = SUPPLY_USER_ID THEN Funded(fs) ELSE Funded(f)]
    /\ dirty = {}
    /\ reg_cache = NoCache
    /\ reg_cache_time = 0
    /\ seen = <<>>
    /\ now = 0
    /\ next_jti = 1
    /\ calls = [c \in Calls |-> IdleCall]
    /\ certs = {}
    /\ issuedFees = [o \in Operators |-> 0]
    /\ issuedAmount = 0
    /\ harness = HarnessIdle
    /\ _dpyc_sessions = [u \in Users |-> None]
    /\ _shutdown_triggered = FALSE
    /\ _reconciled_users = {}
    /\ vault = ledgers

\* a segment's result becomes the process state
Apply(c, s) ==
    /\ ledgers' = s.ledgers
    /\ dirty' = s.dirty
    /\ reg_cache' = s.reg_cache
    /\ reg_cache_time' = s.reg_cache_time
    /\ seen' = s.seen
    /\ next_jti' = s.next_jti
    /\ calls' = [calls EXCEPT ![c] = s.call]

\* mutant: the guard is amount_sats < 0, so a zero amount is certified
BeginStep_ZeroAccepted(call) ==
    LET s == settings
        fee == compute(certify_pricing(s), call.amount_sats)
    IN IF call.amount_sats < 0
       THEN [call EXCEPT !.pc = "done", !.outcome = "failure",
                         !.error = "amount_sats must be positive."]
       ELSE IF s.tollbooth_nostr_operator_nsec = ""
       THEN [call EXCEPT !.pc = "done", !.outcome = "raised",
                         !.error = "ValueError: TOLLBOOTH_NOSTR_OPERATOR_NSEC is required."]
       ELSE IF s.neon_database_url = ""
       THEN [call EXCEPT !.pc = "done", !.outcome = "raised",
                         !.error = "ValueError: Vault not configured."]
       ELSE [call EXCEPT !.pc = "get_ledger", !.fee_sats = fee,
                         !.net_sats = call.amount_sats - fee,
                         !.trace = <<Event("get", call.operator_id, "", 0)>>]

\* mutant: the signer is not fetched before the ledger is read
BeginStep_LazySigner(call) ==
    LET s == settings
        fee == compute(certify_pricing(s), call.amount_sats)
    IN IF call.amount_sats <= 0
       THEN [call EXCEPT !.pc = "done", !.outcome = "failure",
                         !.error = "amount_sats must be positive."]
       ELSE IF s.neon_database_url = ""
       THEN [call EXCEPT !.pc = "done", !.outcome = "raised",
                         !.error = "ValueError: Vault not configured."]
       ELSE [call EXCEPT !.pc = "get_ledger", !.fee_sats = fee,
                         !.net_sats = call.amount_sats - fee,
                         !.trace = <<Event("get", call.operator_id, "", 0)>>]

\* mutant: a net amount below zero is reported as zero
BeginStep_NetClamped(call) ==
    LET s == settings
        fee == compute(certify_pricing(s), call.amount_sats)
    IN IF call.amount_sats <= 0
       THEN [call EXCEPT !.pc = "done", !.outcome = "failure",
                         !.error = "amount_sats must be positive."]
       ELSE IF s.tollbooth_nostr_operator_nsec = ""
       THEN [call EXCEPT !.pc = "done", !.outcome = "raised",
                         !.error = "ValueError: TOLLBOOTH_NOSTR_OPERATOR_NSEC is required."]
       ELSE IF s.neon_database_url = ""
       THEN [call EXCEPT !.pc = "done", !.outcome = "raised",
                         !.error = "ValueError: Vault not configured."]
       ELSE [call EXCEPT !.pc = "get_ledger", !.fee_sats = fee,
                         !.net_sats = Max(0, call.amount_sats - fee),
                         !.trace = <<Event("get", call.operator_id, "", 0)>>]

\* lines 739-752: from the call to the first await, cache.get(operator_id)
BeginStep(call) ==
    LET s == settings
        fee == compute(certify_pricing(s), call.amount_sats)
    IN IF call.amount_sats <= 0
       THEN [call EXCEPT !.pc = "done", !.outcome = "failure",
                         !.error = "amount_sats must be positive."]
       ELSE IF s.tollbooth_nostr_operator_nsec = ""
       THEN [call EXCEPT !.pc = "done", !.outcome = "raised",
                         !.error = "ValueError: TOLLBOOTH_NOSTR_OPERATOR_NSEC is required."]
       ELSE IF s.neon_database_url = ""
       THEN [call EXCEPT !.pc = "done", !.outcome = "raised",
                         !.error = "ValueError: Vault not configured."]
       ELSE [call EXCEPT !.pc = "get_ledger", !.fee_sats = fee,
                         !.net_sats = call.amount_sats - fee,
                         !.trace = <<Event("get", call.operator_id, "", 0)>>]

Begin(c, operator_id, amount_sats) ==
    /\ calls[c].pc = "idle"
    /\ \A i, j \in DOMAIN CallOrder :
          (i < j /\ CallOrder[j] = c) => calls[CallOrder[i]].pc # "idle"
    /\ LET busy == {d \in Calls \ {c} : calls[d].pc # "idle"}
           inflight == {d \in busy : calls[d].pc # "done"}
           call == [IdleCall EXCEPT !.operator_id = operator_id,
                                    !.amount_sats = amount_sats,
                                    !.pre = Balances(ledgers),
                                    !.overlapped = (inflight # {})]
       IN calls' = [d \in Calls |->
                      IF d = c THEN BeginStep(call)
                      ELSE IF d \in busy THEN [calls[d] EXCEPT !.overlapped = TRUE]
                      ELSE calls[d]]
    /\ UNCHANGED <<settings, sessions, vault, ledgers, dirty, reg_cache, reg_cache_time, seen, now,
                   next_jti, certs, issuedFees, issuedAmount, harness>>

DebitOperator(c) ==
    /\ calls[c].pc = "get_ledger"
    /\ Apply(c, OperatorDebitStep(State(c)))
    /\ UNCHANGED <<settings, sessions, vault, now, certs, issuedFees, issuedAmount, harness>>

DebitSupply(c) ==
    /\ calls[c].pc = "get_supply"
    /\ Apply(c, SupplyDebitStep(State(c)))
    /\ UNCHANGED <<settings, sessions, vault, now, certs, issuedFees, issuedAmount, harness>>

FetchDone(c, resp) ==
    /\ calls[c].pc = "fetch"
    /\ Apply(c, FetchDoneStep(State(c), resp))
    /\ UNCHANGED <<settings, sessions, vault, now, certs, issuedFees, issuedAmount, harness>>

\* the certificate of a call that has signed
Certificate(call) ==
    [jti |-> call.jti, sub |-> call.operator_id, amount_sats |-> call.amount_sats,
     tax_paid_sats |-> call.fee_sats, net_sats |-> call.net_sats,
     expiration |-> call.expiration]

\* mutant: a failed flush undoes the fee debit and fails the call
Flush_RollbackOnFailure(c, ok) ==
    /\ calls[c].pc = "flush"
    /\ dirty' = IF ok THEN dirty \ {calls[c].operator_id} ELSE dirty
    /\ ledgers' = IF ok THEN ledgers
                  ELSE [ledgers EXCEPT ![calls[c].operator_id] =
                                          rollback_debit(@, calls[c].fee_sats)]
    /\ calls' = [calls EXCEPT ![c].pc = "done",
                              ![c].outcome = IF ok THEN "success" ELSE "failure"]
    /\ certs' = IF ok THEN certs \cup {Certificate(calls[c])} ELSE certs
    /\ issuedFees' = IF ok
                     THEN [issuedFees EXCEPT
                              ![calls[c].operator_id] = @ + calls[c].fee_sats]
                     ELSE issuedFees
    /\ issuedAmount' = IF ok THEN issuedAmount + calls[c].amount_sats
                       ELSE issuedAmount
    /\ vault' = IF ok THEN [vault EXCEPT ![calls[c].operator_id] =
                                           ledgers[calls[c].operator_id]]
                ELSE vault
    /\ UNCHANGED <<settings, sessions, reg_cache, reg_cache_time, seen, now, next_jti,
                   harness>>

\* lines 811-823: flush_user returned ok; the success response
Flush(c, ok) ==
    /\ calls[c].pc = "flush"
    /\ dirty' = IF ok THEN dirty \ {calls[c].operator_id} ELSE dirty
    /\ calls' = [calls EXCEPT ![c].pc = "done", ![c].outcome = "success"]
    /\ certs' = certs \cup {Certificate(calls[c])}
    /\ issuedFees' = [issuedFees EXCEPT ![calls[c].operator_id] = @ + calls[c].fee_sats]
    /\ issuedAmount' = issuedAmount + calls[c].amount_sats
    /\ vault' = IF ok THEN [vault EXCEPT ![calls[c].operator_id] =
                                           ledgers[calls[c].operator_id]]
                ELSE vault
    /\ UNCHANGED <<settings, sessions, ledgers, reg_cache, reg_cache_time, seen, now,
                   next_jti, harness>>

Tick ==
    /\ now < MaxTime
    /\ now' = now + 1
    /\ UNCHANGED <<settings, sessions, vault, ledgers, dirty, reg_cache, reg_cache_time, seen,
                   next_jti, calls, certs, issuedFees, issuedAmount, harness>>

Next ==
    \/ \E c \in Calls, o \in Operators, a \in Amounts : Begin(c, o, a)
    \/ \E c \in Calls : DebitOperator(c)
    \/ \E c \in Calls : DebitSupply(c)
    \/ \E c \in Calls, resp \in Responses : FetchDone(c, resp)
    \/ \E c \in Calls, ok \in BOOLEAN : Flush(c, ok)
    \/ Tick

Spec == Init /\ [][Next]_vars


\* ------------------------------------------------------------------------
\* Flush runs: certify_credits calls while the ledger cache's background
\* flush task (started by _get_ledger_cache) writes the dirty accounts
\* ------------------------------------------------------------------------
\* a configured deployment without an upstream chain that enforces membership
InitFlush ==
    /\ Init
    /\ settings.dpyc_enforce_membership
    /\ settings.upstream_authority_address = ""
    /\ settings.tollbooth_nostr_operator_nsec # ""
    /\ settings.neon_database_url # ""

\* one round of the background flush: every dirty account is written to the
\* vault as it is in memory and is clean afterwards
BackgroundFlush ==
    /\ dirty # {}
    /\ vault' = [k \in AccountKeys |-> IF k \in dirty THEN ledgers[k] ELSE vault[k]]
    /\ dirty' = {}
    /\ UNCHANGED <<settings, sessions, ledgers, reg_cache, reg_cache_time, seen, now,
                   next_jti, calls, certs, issuedFees, issuedAmount, harness>>

\* the steps of certify_credits without an upstream chain
NextPrime ==
    \/ \E c \in Calls, o \in Operators, a \in Amounts : Begin(c, o, a)
    \/ \E c \in Calls : DebitOperator(c)
    \/ \E c \in Calls, resp \in Responses : FetchDone(c, resp)
    \/ \E c \in Calls, ok \in BOOLEAN : Flush(c, ok)
    \/ Tick

NextFlush ==
    \/ NextPrime
    \/ BackgroundFlush

SpecFlush == InitFlush /\ [][NextFlush]_vars


\* ------------------------------------------------------------------------
\* Invalidation runs: registry.invalidate_cache() while certify_credits calls
\* check membership on the same registry
\* ------------------------------------------------------------------------
\* a call's check_membership has started
LookupStarted(c) ==
    \E i \in DOMAIN calls[c].trace : calls[c].trace[i].op = "check_membership"

\* registry.py lines 77-80, called once, while a fetch is awaited;
\* harness.value remembers the calls whose lookup had started when the cache
\* was dropped
InvalidateDuringCalls ==
    /\ ~harness.invalidated
    /\ \E c \in Calls : calls[c].pc = "fetch"
    /\ reg_cache' = NoCache
    /\ reg_cache_time' = 0
    /\ harness' = [harness EXCEPT !.n = @ + 1, !.op = "invalidate_cache",
                                  !.value = {c \in Calls : LookupStarted(c)},
                                  !.fetched = FALSE, !.invalidated = TRUE]
    /\ UNCHANGED <<settings, sessions, vault, ledgers, dirty, seen, now, next_jti, calls, certs,
                   issuedFees, issuedAmount>>

NextInvalidate ==
    \/ NextPrime
    \/ InvalidateDuringCalls

SpecInvalidate == InitFlush /\ [][NextInvalidate]_vars


\* ------------------------------------------------------------------------
\* Fee runs: one call on a prime authority over a wide range of amounts, or
\* direct calls of create_certificate_claims
\* ------------------------------------------------------------------------
\* everything but settings and ledgers as the process starts
Quiet ==
    /\ dirty = {}
    /\ reg_cache = NoCache
    /\ reg_cache_time = 0
    /\ seen = <<>>
    /\ now = 0
    /\ next_jti = 1
    /\ calls = [c \in Calls |-> IdleCall]
    /\ certs = {}
    /\ issuedFees = [o \in Operators |-> 0]
    /\ issuedAmount = 0
    /\ harness = HarnessIdle
    /\ _dpyc_sessions = [u \in Users |-> None]
    /\ _shutdown_triggered = FALSE
    /\ _reconciled_users = {}
    /\ vault = ledgers

InitFee ==
    /\ settings \in [tax_rate_percent : FeeRatePercents,
                     tax_min_sats : FeeMinSats,
                     upstream_authority_address : {""},
                     certificate_ttl_seconds : CertTtls,
                     dpyc_registry_cache_ttl_seconds : RegistryTtls,
                     dpyc_enforce_membership : {FALSE},
                     tollbooth_nostr_operator_nsec : {"nsec1"},
                     neon_database_url : {"postgres://"}]
    /\ ledgers = [k \in AccountKeys |->
                    IF k = SUPPLY_USER_ID THEN Funded(0) ELSE Funded(FeeFund)]
    /\ Quiet

\* the harness builds the claims of a certificate
CreateClaims(operator_id, amount_sats, tax_sats, ttl_seconds, authority_npub) ==
    /\ harness.n < MaxDirectCalls
    /\ harness' = [harness EXCEPT
                     !.n = @ + 1,
                     !.op = "create_certificate_claims",
                     !.arg = <<operator_id, amount_sats, tax_sats>>,
                     !.value = create_certificate_claims(
                                   operator_id, amount_sats, tax_sats, ttl_seconds,
                                   authority_npub, next_jti, now)]
    /\ next_jti' = next_jti + 1
    /\ UNCHANGED <<settings, sessions, vault, ledgers, dirty, reg_cache, reg_cache_time, seen, now,
                   calls, certs, issuedFees, issuedAmount>>

NextFee ==
    \/ \E a \in FeeAmounts : harness.n = 0 /\ Begin("c1", "npub_a", a)
    \/ harness.n = 0 /\ DebitOperator("c1")
    \/ \E ok \in BOOLEAN : harness.n = 0 /\ Flush("c1", ok)
    \/ \E a \in FeeAmounts, tax \in ClaimTaxes, npub \in {"", "npub_authority"} :
          /\ harness.n = 0 /\ \A c \in Calls : calls[c].pc = "idle"
          /\ CreateClaims("npub_a", a, tax, settings.certificate_ttl_seconds, npub)

SpecFee == InitFee /\ [][NextFee]_vars


\* ------------------------------------------------------------------------
\* Replay runs: the tracker called directly, while no certificate is issued
\* ------------------------------------------------------------------------
\* settings of a deployment with nothing optional switched on
PlainSettings(cert_ttls, registry_ttls) ==
    [tax_rate_percent : TaxRatePercents,
     tax_min_sats : TaxMinSats,
     upstream_authority_address : {""},
     certificate_ttl_seconds : cert_ttls,
     dpyc_registry_cache_ttl_seconds : registry_ttls,
     dpyc_enforce_membership : {FALSE},
     tollbooth_nostr_operator_nsec : {"nsec1"},
     neon_database_url : {"postgres://"}]

InitReplay ==
    /\ settings \in PlainSettings(ReplayTtls, RegistryTtls)
    /\ ledgers = [k \in AccountKeys |-> Funded(0)]
    /\ Quiet

\* the clock of the direct caller's runs
Advance ==
    /\ now < MaxClock
    /\ now' = now + 1
    /\ UNCHANGED <<settings, sessions, vault, ledgers, dirty, reg_cache, reg_cache_time, seen,
                   next_jti, calls, certs, issuedFees, issuedAmount, harness>>

\* tracker.check_and_record(jti), the tracker built by _get_replay_tracker
CheckAndRecord(jti) ==
    /\ harness.n < MaxDirectCalls
    /\ LET rec == check_and_record(seen, jti, now,
                                   settings.certificate_ttl_seconds)
       IN /\ seen' = rec.seen
          /\ harness' = [harness EXCEPT !.n = @ + 1,
                                        !.op = "check_and_record",
                                        !.arg = jti,
                                        !.value = rec.accepted]
    /\ UNCHANGED <<settings, sessions, vault, ledgers, dirty, reg_cache, reg_cache_time, now,
                   next_jti, calls, certs, issuedFees, issuedAmount>>

NextReplay ==
    \/ \E jti \in ReplayIds : CheckAndRecord(jti)
    \/ Advance

SpecReplay == InitReplay /\ [][NextReplay]_vars


\* ------------------------------------------------------------------------
\* Lookup runs: one caller at a time asks the shared registry; the clock may
\* advance while the GET is awaited
\* ------------------------------------------------------------------------
InitLookup ==
    /\ settings \in PlainSettings(CertTtls, LookupTtls)
    /\ ledgers = [k \in AccountKeys |-> Funded(0)]
    /\ Quiet

\* registry.check_membership(npub) up to the await of the GET, or to its
\* result when the cache is served
LookupBegin(npub) ==
    /\ harness.pc = "idle"
    /\ harness.n < MaxDirectCalls
    /\ IF CacheLive(reg_cache, reg_cache_time, now,
                    settings.dpyc_registry_cache_ttl_seconds)
       THEN harness' = [harness EXCEPT
                           !.n = @ + 1,
                           !.op = "check_membership",
                           !.arg = npub,
                           !.value = check_membership(reg_cache.members, npub).kind,
                           !.fetched = FALSE]
       ELSE harness' = [harness EXCEPT !.pc = "fetch", !.arg = npub,
                                       !.fetch_now = now]
    /\ UNCHANGED <<settings, sessions, vault, ledgers, dirty, reg_cache, reg_cache_time, seen, now,
                   next_jti, calls, certs, issuedFees, issuedAmount>>

\* mutant: a failed fetch drops the snapshot
LookupEnd_FailureDropsCache(resp) ==
    /\ harness.pc = "fetch"
    /\ LET p == ParseResponse(resp) IN
       IF p.ok
       THEN /\ reg_cache' = Cached(p.data)
            /\ reg_cache_time' = harness.fetch_now
            /\ harness' = [harness EXCEPT
                              !.n = @ + 1,
                              !.op = "check_membership",
                              !.value = check_membership(p.data, harness.arg).kind,
                              !.pc = "idle",
                              !.fetched = TRUE,
                              !.fetch_ok_at = harness.fetch_now,
                              !.invalidated = FALSE]
       ELSE /\ reg_cache' = NoCache
            /\ reg_cache_time' = 0
            /\ harness' = [harness EXCEPT
                              !.n = @ + 1,
                              !.op = "check_membership",
                              !.value = "RegistryError",
                              !.pc = "idle",
                              !.fetched = TRUE]
    /\ UNCHANGED <<settings, sessions, vault, ledgers, dirty, seen, now, next_jti, calls, certs,
                   issuedFees, issuedAmount>>

\* the GET returned resp: the rest of _fetch and of check_membership
LookupEnd(resp) ==
    /\ harness.pc = "fetch"
    /\ LET p == ParseResponse(resp) IN
       IF p.ok
       THEN /\ reg_cache' = Cached(p.data)
            /\ reg_cache_time' = harness.fetch_now
            /\ harness' = [harness EXCEPT
                              !.n = @ + 1,
                              !.op = "check_membership",
                              !.value = check_membership(p.data, harness.arg).kind,
                              !.pc = "idle",
                              !.fetched = TRUE,
                              !.fetch_ok_at = harness.fetch_now,
                              !.invalidated = FALSE]
       ELSE /\ UNCHANGED <<reg_cache, reg_cache_time>>
            /\ harness' = [harness EXCEPT
                              !.n = @ + 1,
                              !.op = "check_membership",
                              !.value = "RegistryError",
                              !.pc = "idle",
                              !.fetched = TRUE]
    /\ UNCHANGED <<settings, sessions, vault, ledgers, dirty, seen, now, next_jti, calls, certs,
                   issuedFees, issuedAmount>>

\* registry.invalidate_cache(), between two lookups
InvalidateCache ==
    /\ harness.pc = "idle"
    /\ harness.n < MaxDirectCalls
    /\ reg_cache' = NoCache
    /\ reg_cache_time' = 0
    /\ harness' = [harness EXCEPT !.n = @ + 1, !.op = "invalidate_cache",
                                  !.arg = None, !.value = None,
                                  !.fetched = FALSE, !.invalidated = TRUE]
    /\ UNCHANGED <<settings, sessions, vault, ledgers, dirty, seen, now, next_jti, calls, certs,
                   issuedFees, issuedAmount>>

NextLookup ==
    \/ \E npub \in Operators : LookupBegin(npub)
    \/ \E resp \in Responses : LookupEnd(resp)
    \/ InvalidateCache
    \/ Advance

SpecLookup == InitLookup /\ [][NextLookup]_vars


\* ------------------------------------------------------------------------
\* Collision runs: the saga on a tracker that may already hold the ids that
\* uuid4 is about to draw
\* ------------------------------------------------------------------------
TrackerContents ==
    {<<>>,
     <<[jti |-> 1, ts |-> 0]>>,
     <<[jti |-> 2, ts |-> 0]>>,
     <<[jti |-> 1, ts |-> 0], [jti |-> 2, ts |-> 0]>>}

InitCollision ==
    /\ settings \in [tax_rate_percent : TaxRatePercents,
                     tax_min_sats : TaxMinSats,
                     upstream_authority_address : {"", "upstream@example.com"},
                     certificate_ttl_seconds : LongCertTtls,
                     dpyc_registry_cache_ttl_seconds : RegistryTtls,
                     dpyc_enforce_membership : BOOLEAN,
                     tollbooth_nostr_operator_nsec : {"nsec1"},
                     neon_database_url : {"postgres://"}]
    /\ ledgers = [k \in AccountKeys |->
                    IF k = SUPPLY_USER_ID
                    THEN Funded(IF settings.upstream_authority_address = ""
                                THEN 0 ELSE MaxSupply)
                    ELSE Funded(MaxFund)]
    /\ dirty = {}
    /\ reg_cache = NoCache
    /\ reg_cache_time = 0
    /\ seen \in TrackerContents
    /\ now = 0
    /\ next_jti = 1
    /\ calls = [c \in Calls |-> IdleCall]
    /\ certs = {}
    /\ issuedFees = [o \in Operators |-> 0]
    /\ issuedAmount = 0
    /\ harness = HarnessIdle
    /\ _dpyc_sessions = [u \in Users |-> None]
    /\ _shutdown_triggered = FALSE
    /\ _reconciled_users = {}
    /\ vault = ledgers

SpecCollision == InitCollision /\ [][Next]_vars

\* Window runs: a fresh process (_replay_tracker is None, so the tracker
\* built by _get_replay_tracker is empty) whose certificates outlast a tick
InitWindow ==
    /\ InitCollision
    /\ seen = <<>>

SpecWindow == InitWindow /\ [][Next]_vars


\* ------------------------------------------------------------------------
\* Signing runs: signers built from a key sign certificates, which are then
\* verified as the clock advances
\* ------------------------------------------------------------------------
InitSign ==
    /\ settings \in PlainSettings(CertTtls, RegistryTtls)
    /\ ledgers = [k \in AccountKeys |-> Funded(0)]
    /\ Quiet

\* AuthoritySigner(key).sign_certificate(create_certificate_claims(...))
SignJwt(key, operator_id, amount_sats, ttl_seconds) ==
    /\ harness.n < MaxDirectCalls
    /\ LET tax == compute(certify_pricing(settings), amount_sats)
           claims == create_certificate_claims(operator_id, amount_sats, tax,
                                               ttl_seconds, "", next_jti, now)
       IN harness' = [harness EXCEPT
                         !.n = @ + 1,
                         !.op = "sign_certificate",
                         !.arg = key,
                         !.value = sign_certificate(AuthoritySigner(key), claims)]
    /\ next_jti' = next_jti + 1
    /\ UNCHANGED <<settings, sessions, vault, ledgers, dirty, reg_cache, reg_cache_time, seen, now,
                   calls, certs, issuedFees, issuedAmount>>

\* AuthorityNostrSigner(nsec).sign_certificate_event(claims, jti, npub, exp)
SignEvent(nsec, operator_id, amount_sats, ttl_seconds) ==
    /\ harness.n < MaxDirectCalls
    /\ LET tax == compute(certify_pricing(settings), amount_sats)
           claims == create_certificate_claims(operator_id, amount_sats, tax,
                                               ttl_seconds, "", next_jti, now)
       IN harness' = [harness EXCEPT
                         !.n = @ + 1,
                         !.op = "sign_certificate_event",
                         !.arg = nsec,
                         !.value = sign_certificate_event(
                                       AuthorityNostrSigner(nsec), claims,
                                       next_jti, operator_id, now + ttl_seconds,
                                       now)]
    /\ next_jti' = next_jti + 1
    /\ UNCHANGED <<settings, sessions, vault, ledgers, dirty, reg_cache, reg_cache_time, seen, now,
                   calls, certs, issuedFees, issuedAmount>>

\* server.py 788-808 run on their own: certify_credits draws the jti, reads
\* the clock for the expiration, records the jti and has the event signed;
\* sign_certificate_event reads the clock again for created_at, elapsed
\* seconds after the first reading
IssueEvent(operator_id, amount_sats, elapsed) ==
    /\ harness.n < MaxDirectCalls
    /\ LET fee_sats == compute(certify_pricing(settings), amount_sats)
           jti == next_jti
           expiration == now + settings.certificate_ttl_seconds
           claims == [sub |-> operator_id, amount_sats |-> amount_sats,
                      tax_paid_sats |-> fee_sats,
                      net_sats |-> amount_sats - fee_sats,
                      dpyc_protocol |-> "dpyp-01-base-certificate"]
           nostr_signer == AuthorityNostrSigner(settings.tollbooth_nostr_operator_nsec)
       IN /\ seen' = check_and_record(seen, jti, now,
                                      settings.certificate_ttl_seconds).seen
          /\ harness' = [harness EXCEPT
                            !.n = @ + 1,
                            !.op = "certify_credits",
                            !.arg = settings.tollbooth_nostr_operator_nsec,
                            !.value = sign_certificate_event(
                                          nostr_signer, claims, jti, operator_id,
                                          expiration, now + elapsed)]
    /\ next_jti' = next_jti + 1
    /\ UNCHANGED <<settings, sessions, vault, ledgers, dirty, reg_cache, reg_cache_time, now,
                   calls, certs, issuedFees, issuedAmount>>

NextSign ==
    \/ \E key \in SigningKeys, o \in Operators, a \in {1, 2}, ttl \in SignTtls :
          SignJwt(key, o, a, ttl)
    \/ \E nsec \in SigningKeys, o \in Operators, a \in {1, 2}, ttl \in SignTtls :
          SignEvent(nsec, o, a, ttl)
    \/ \E o \in Operators, a \in {1, 2}, elapsed \in ClockSteps : IssueEvent(o, a, elapsed)
    \/ Advance

SpecSign == InitSign /\ [][NextSign]_vars


\* ------------------------------------------------------------------------
\* Tool runs: the session-bound MCP tools of server.py called one at a time
\* by identified and unidentified callers, and the shutdown handler
\* ------------------------------------------------------------------------
MinNpubLen == 60

\* the shape of an npub argument: operators' npubs are bech32 strings of 63
\* characters beginning with "npub1"
StartsWithNpub1(s) == s \in Operators \cup {"npub1short"}
NpubLen(s) == IF s = "npub1short" THEN 10 ELSE 63

\* a tool's response: raised tells that an exception left the tool, ops
\* lists the operations on the ledger cache, the vault, the payment
\* processor and the signer that the call performed, in order
Reply ==
    [success |-> FALSE, raised |-> FALSE, error |-> "", operator_id |-> None,
     balance_sats |-> -1, credited_sats |-> 0, ops |-> <<>>]
ToolFailure(msg) == [Reply EXCEPT !.error = msg]
ToolRaise(msg, ops) == [Reply EXCEPT !.raised = TRUE, !.error = msg, !.ops = ops]

VaultError == "ValueError: Vault not configured."
BTCPayError == "ValueError: BTCPay not configured."
SignerError == "ValueError: TOLLBOOTH_NOSTR_OPERATOR_NSEC is required."
NoIdentity == "No DPYC identity active. Call register_operator(npub=...) first."
NoUser == "Cannot identify user."

_require_user_id(caller) ==
    IF caller = None THEN [ok |-> FALSE, value |-> NoUser]
    ELSE [ok |-> TRUE, value |-> caller]

\* mutant: a caller without a session acts under its Horizon id
_get_effective_user_id_HorizonFallback(caller) ==
    LET horizon_id == _require_user_id(caller)
    IN IF ~horizon_id.ok THEN horizon_id
       ELSE IF _dpyc_sessions[caller] = None
            THEN [ok |-> TRUE, value |-> "npub_a"]
       ELSE [ok |-> TRUE, value |-> _dpyc_sessions[caller]]

\* ok with the session's npub, or the ValueError raised
_get_effective_user_id(caller) ==
    LET horizon_id == _require_user_id(caller)
    IN IF ~horizon_id.ok THEN horizon_id
       ELSE IF _dpyc_sessions[caller] = None
            THEN [ok |-> FALSE, value |-> NoIdentity]
       ELSE [ok |-> TRUE, value |-> _dpyc_sessions[caller]]

ToolSettings ==
    [tax_rate_percent : TaxRatePercents,
     tax_min_sats : TaxMinSats,
     upstream_authority_address : {"upstream@example.com"},
     certificate_ttl_seconds : CertTtls,
     dpyc_registry_cache_ttl_seconds : RegistryTtls,
     dpyc_enforce_membership : {FALSE},
     tollbooth_nostr_operator_nsec : {"", "nsec1"},
     neon_database_url : {"", "postgres://"},
     btcpay_host : {"", "btcpay.example"},
     dpyc_authority_npub : {"", "npub_a"}]

InitTools ==
    /\ settings \in ToolSettings
    /\ ledgers = [k \in AccountKeys |-> Funded(IF k = SUPPLY_USER_ID THEN 0 ELSE 1)]
    /\ Quiet

\* the harness after a tool call
Called(tool, caller, arg, reply) ==
    harness' = [harness EXCEPT !.n = @ + 1, !.op = tool,
                               !.arg = [caller |-> caller, arg |-> arg],
                               !.value = reply]

ToolFrame ==
    UNCHANGED <<settings, reg_cache, reg_cache_time, seen, now, next_jti, calls,
                certs, issuedFees, issuedAmount, _shutdown_triggered>>

\* mutant: the session is bound before the npub's shape is checked
RegisterOperator_BindsFirst(caller, npub, flush_ok) ==
    /\ harness.n < MaxDirectCalls
    /\ LET horizon_id == _require_user_id(caller)
           malformed == ~StartsWithNpub1(npub) \/ NpubLen(npub) < MinNpubLen
           configured == settings.neon_database_url # ""
       IN /\ _dpyc_sessions' = IF horizon_id.ok
                                THEN [_dpyc_sessions EXCEPT ![caller] = npub]
                                ELSE _dpyc_sessions
          /\ dirty' = IF ~malformed /\ horizon_id.ok /\ configured /\ ~flush_ok
                      THEN dirty \cup {npub} ELSE dirty
          /\ vault' = IF ~malformed /\ horizon_id.ok /\ configured /\ flush_ok
                      THEN [vault EXCEPT ![npub] = ledgers[npub]] ELSE vault
          /\ Called("register_operator", caller, npub,
                IF malformed THEN ToolFailure("Invalid npub format.")
                ELSE IF ~horizon_id.ok THEN ToolRaise("ValueError: " \o NoUser, <<>>)
                ELSE IF ~configured THEN ToolRaise(VaultError, <<>>)
                ELSE [Reply EXCEPT !.success = TRUE,
                                   !.operator_id = npub,
                                   !.balance_sats = ledgers[npub].balance_api_sats,
                                   !.ops = <<"get", "mark_dirty", "flush_user">>])
    /\ UNCHANGED <<ledgers, _reconciled_users>>
    /\ ToolFrame

\* register_operator(npub) by caller; flush_ok is the result of flush_user
RegisterOperator(caller, npub, flush_ok) ==
    /\ harness.n < MaxDirectCalls
    /\ LET horizon_id == _require_user_id(caller)
           malformed == ~StartsWithNpub1(npub) \/ NpubLen(npub) < MinNpubLen
           configured == settings.neon_database_url # ""
       IN /\ _dpyc_sessions' = IF ~malformed /\ horizon_id.ok
                                THEN [_dpyc_sessions EXCEPT ![caller] = npub]
                                ELSE _dpyc_sessions
          /\ dirty' = IF ~malformed /\ horizon_id.ok /\ configured /\ ~flush_ok
                      THEN dirty \cup {npub} ELSE dirty
          /\ vault' = IF ~malformed /\ horizon_id.ok /\ configured /\ flush_ok
                      THEN [vault EXCEPT ![npub] = ledgers[npub]] ELSE vault
          /\ Called("register_operator", caller, npub,
                IF malformed THEN ToolFailure("Invalid npub format.")
                ELSE IF ~horizon_id.ok THEN ToolRaise("ValueError: " \o NoUser, <<>>)
                ELSE IF ~configured THEN ToolRaise(VaultError, <<>>)
                ELSE [Reply EXCEPT !.success = TRUE,
                                   !.operator_id = npub,
                                   !.balance_sats = ledgers[npub].balance_api_sats,
                                   !.ops = <<"get", "mark_dirty", "flush_user">>])
    /\ UNCHANGED <<ledgers, _reconciled_users>>
    /\ ToolFrame

\* purchase_credits(amount_sats) by caller: the invoice is created by
\* purchase_tax_credits_tool, which credits nothing before payment
PurchaseCredits(caller) ==
    /\ harness.n < MaxDirectCalls
    /\ LET user_id == _get_effective_user_id(caller)
       IN Called("purchase_credits", caller, None,
             IF ~user_id.ok THEN ToolFailure(user_id.value)
             ELSE IF settings.btcpay_host = "" THEN ToolRaise(BTCPayError, <<>>)
             ELSE IF settings.neon_database_url = "" THEN ToolRaise(VaultError, <<>>)
             ELSE [Reply EXCEPT !.success = TRUE, !.operator_id = user_id.value,
                                !.ops = <<"purchase_tax_credits_tool">>])
    /\ UNCHANGED <<ledgers, dirty, _dpyc_sessions, _reconciled_users, vault>>
    /\ ToolFrame

\* check_payment(invoice_id) by caller: settled tells whether the invoice
\* was paid since the last look, in which case check_payment_tool credits
\* its one sat to the caller's ledger
CheckPayment(caller, settled) ==
    /\ harness.n < MaxDirectCalls
    /\ LET user_id == _get_effective_user_id(caller)
           run == /\ user_id.ok
                  /\ settings.btcpay_host # ""
                  /\ settings.neon_database_url # ""
           credit == run /\ settled /\ ledgers[user_id.value].balance_api_sats < MaxFund
       IN /\ Called("check_payment", caller, None,
                IF ~user_id.ok THEN ToolFailure(user_id.value)
                ELSE IF settings.btcpay_host = "" THEN ToolRaise(BTCPayError, <<>>)
                ELSE IF settings.neon_database_url = "" THEN ToolRaise(VaultError, <<>>)
                ELSE [Reply EXCEPT !.success = TRUE, !.operator_id = user_id.value,
                                   !.credited_sats = IF credit THEN 1 ELSE 0,
                                   !.ops = <<"check_payment_tool">>])
          /\ ledgers' = IF credit
                        THEN [ledgers EXCEPT ![user_id.value] = credit_deposit(@, 1)]
                        ELSE ledgers
          /\ dirty' = IF credit THEN dirty \cup {user_id.value} ELSE dirty
    /\ UNCHANGED <<_dpyc_sessions, _reconciled_users, vault>>
    /\ ToolFrame

\* check_balance() by caller: the first call of a user also reconciles the
\* user's pending invoices, when the payment processor is configured
CheckBalance(caller) ==
    /\ harness.n < MaxDirectCalls
    /\ LET user_id == _get_effective_user_id(caller)
           run == user_id.ok /\ settings.neon_database_url # ""
           first == run /\ user_id.value \notin _reconciled_users
           reconcile == IF first /\ settings.btcpay_host # ""
                        THEN <<"reconcile_pending_invoices">> ELSE <<>>
       IN /\ Called("check_balance", caller, None,
                IF ~user_id.ok THEN ToolFailure(user_id.value)
                ELSE IF ~run THEN ToolRaise(VaultError, <<>>)
                ELSE [Reply EXCEPT !.success = TRUE, !.operator_id = user_id.value,
                                   !.balance_sats = ledgers[user_id.value].balance_api_sats,
                                   !.ops = reconcile \o <<"check_balance_tool">>])
          /\ _reconciled_users' = IF first THEN _reconciled_users \cup {user_id.value}
                                  ELSE _reconciled_users
    /\ UNCHANGED <<ledgers, dirty, _dpyc_sessions, vault>>
    /\ ToolFrame

\* operator_status() by caller
OperatorStatus(caller) ==
    /\ harness.n < MaxDirectCalls
    /\ LET user_id == _get_effective_user_id(caller)
       IN Called("operator_status", caller, None,
             IF ~user_id.ok THEN ToolFailure(user_id.value)
             ELSE IF settings.tollbooth_nostr_operator_nsec = ""
                  THEN ToolRaise(SignerError, <<>>)
             ELSE IF settings.neon_database_url = "" THEN ToolRaise(VaultError, <<>>)
             ELSE [Reply EXCEPT !.success = TRUE, !.operator_id = user_id.value,
                                !.balance_sats = ledgers[user_id.value].balance_api_sats,
                                !.ops = IF settings.upstream_authority_address # ""
                                        THEN <<"get", "get">> ELSE <<"get">>])
    /\ UNCHANGED <<ledgers, dirty, _dpyc_sessions, _reconciled_users, vault>>
    /\ ToolFrame

\* mutant: any caller with a session may report
ReportUpstreamPurchase_AnySession(caller, amount_sats, flush_ok) ==
    /\ harness.n < MaxDirectCalls
    /\ LET caller_npub == _get_effective_user_id(caller)
           authorized == /\ amount_sats > 0
                         /\ settings.dpyc_authority_npub # ""
                         /\ caller_npub.ok
           credit == authorized /\ settings.neon_database_url # ""
           supply == credit_deposit(ledgers[SUPPLY_USER_ID], amount_sats)
       IN /\ Called("report_upstream_purchase", caller, amount_sats,
                IF amount_sats <= 0 THEN ToolFailure("amount_sats must be positive.")
                ELSE IF settings.dpyc_authority_npub = ""
                     THEN ToolFailure("Admin authorization not configured.")
                ELSE IF ~caller_npub.ok THEN ToolFailure(caller_npub.value)
                ELSE IF ~credit THEN ToolRaise(VaultError, <<>>)
                ELSE [Reply EXCEPT !.success = TRUE,
                                   !.balance_sats = supply.balance_api_sats,
                                   !.credited_sats = amount_sats,
                                   !.ops = <<"get", "credit_deposit", "mark_dirty",
                                             "flush_user">>])
          /\ ledgers' = IF credit THEN [ledgers EXCEPT ![SUPPLY_USER_ID] = supply]
                        ELSE ledgers
          /\ dirty' = IF credit /\ ~flush_ok THEN dirty \cup {SUPPLY_USER_ID}
                      ELSE dirty
          /\ vault' = IF credit /\ flush_ok
                      THEN [vault EXCEPT ![SUPPLY_USER_ID] = supply] ELSE vault
    /\ UNCHANGED <<_dpyc_sessions, _reconciled_users>>
    /\ ToolFrame

\* report_upstream_purchase(amount_sats) by caller; flush_ok is the result
\* of flush_user
ReportUpstreamPurchase(caller, amount_sats, flush_ok) ==
    /\ harness.n < MaxDirectCalls
    /\ LET caller_npub == _get_effective_user_id(caller)
           authorized == /\ amount_sats > 0
                         /\ settings.dpyc_authority_npub # ""
                         /\ caller_npub.ok
                         /\ caller_npub.value = settings.dpyc_authority_npub
           credit == authorized /\ settings.neon_database_url # ""
           supply == credit_deposit(ledgers[SUPPLY_USER_ID], amount_sats)
       IN /\ Called("report_upstream_purchase", caller, amount_sats,
                IF amount_sats <= 0 THEN ToolFailure("amount_sats must be positive.")
                ELSE IF settings.dpyc_authority_npub = ""
                     THEN ToolFailure("Admin authorization not configured.")
                ELSE IF ~caller_npub.ok THEN ToolFailure(caller_npub.value)
                ELSE IF caller_npub.value # settings.dpyc_authority_npub
                     THEN ToolFailure("Unauthorized.")
                ELSE IF ~credit THEN ToolRaise(VaultError, <<>>)
                ELSE [Reply EXCEPT !.success = TRUE,
                                   !.balance_sats = supply.balance_api_sats,
                                   !.credited_sats = amount_sats,
                                   !.ops = <<"get", "credit_deposit", "mark_dirty",
                                             "flush_user">>])
          /\ ledgers' = IF credit THEN [ledgers EXCEPT ![SUPPLY_USER_ID] = supply]
                        ELSE ledgers
          /\ dirty' = IF credit /\ ~flush_ok THEN dirty \cup {SUPPLY_USER_ID}
                      ELSE dirty
          /\ vault' = IF credit /\ flush_ok
                      THEN [vault EXCEPT ![SUPPLY_USER_ID] = supply] ELSE vault
    /\ UNCHANGED <<_dpyc_sessions, _reconciled_users>>
    /\ ToolFrame

\* _graceful_shutdown(): flush_ok tells whether flush_all finished within
\* its eight seconds; the cache is dropped, so what the next cache.get
\* returns is what the vault holds
Shutdown(flush_ok) ==
    /\ ~_shutdown_triggered
    /\ _shutdown_triggered' = TRUE
    /\ dirty' = {}
    /\ vault' = IF flush_ok
                THEN [k \in AccountKeys |-> IF k \in dirty THEN ledgers[k] ELSE vault[k]]
                ELSE vault
    /\ ledgers' = vault'
    /\ _dpyc_sessions' = [u \in Users |-> None]
    /\ UNCHANGED <<settings, reg_cache, reg_cache_time, seen, now,
                   next_jti, calls, certs, issuedFees, issuedAmount, harness,
                   _reconciled_users>>

NextTools ==
    \/ \E caller \in Callers, npub \in NpubArgs, ok \in BOOLEAN :
          RegisterOperator(caller, npub, ok)
    \/ \E caller \in Callers : PurchaseCredits(caller)
    \/ \E caller \in Callers, settled \in BOOLEAN : CheckPayment(caller, settled)
    \/ \E caller \in Callers : CheckBalance(caller)
    \/ \E caller \in Callers : OperatorStatus(caller)
    \/ \E caller \in Callers, a \in Amounts, ok \in BOOLEAN :
          ReportUpstreamPurchase(caller, a, ok)
    \/ \E ok \in BOOLEAN : Shutdown(ok)

SpecTools == InitTools /\ [][NextTools]_vars


\* ------------------------------------------------------------------------
\* Vocabulary of the properties
\* ------------------------------------------------------------------------
Done(c) == calls[c].pc = "done"
Failed(c, error) == Done(c) /\ calls[c].error = error
Alone(c) == ~calls[c].overlapped
OthersIdle(c) == \A d \in Calls \ {c} : calls[d].pc = "idle"
Configured ==
    settings.tollbooth_nostr_operator_nsec # "" /\ settings.neon_database_url # ""
Upstream == settings.upstream_authority_address # ""
BalanceOf(k) == ledgers[k].balance_api_sats
BalancesAsBefore(c) == Balances(ledgers) = calls[c].pre
Untouched ==
    /\ seen = <<>> /\ dirty = {} /\ reg_cache = NoCache /\ next_jti = 1
    /\ certs = {}

RECURSIVE NetDebited(_, _)
\* what a call's debits, less its rollbacks, took from account k
NetDebited(trace, k) ==
    IF trace = <<>> THEN 0
    ELSE LET e == Head(trace)
             d == IF e.acct # k THEN 0
                  ELSE IF e.op = "debit" THEN e.amount
                  ELSE IF e.op = "rollback_debit" THEN 0 - e.amount
                  ELSE 0
         IN d + NetDebited(Tail(trace), k)

HasEvent(c, op) == \E i \in DOMAIN calls[c].trace : calls[c].trace[i].op = op

\* the first record of npub in the list exists, is reached and is active
ActiveIn(members, npub) ==
    \E i \in DOMAIN members :
        /\ members[i].isdict /\ members[i].npub = npub
        /\ members[i].status = "active"
        /\ \A j \in 1..(i - 1) : members[j].isdict /\ members[j].npub # npub

\* ------------------------------------------------------------------------
\* Properties
\* ------------------------------------------------------------------------

\* C1: a call whose membership check raises RegistryError returns
\* success=false and, absent concurrent calls, leaves the operator's balance
\* and the supply balance at their pre-call values.
C1_MembershipFailureRestoresBalances ==
    \A c \in Calls :
        Failed(c, "DPYC membership check failed") =>
            /\ settings.dpyc_enforce_membership
            /\ calls[c].outcome = "failure"
            /\ Alone(c) =>
                 /\ BalanceOf(calls[c].operator_id) = calls[c].pre[calls[c].operator_id]
                 /\ BalanceOf(SUPPLY_USER_ID) = calls[c].pre[SUPPLY_USER_ID]

C1_Witness ==
    \E c \in Calls :
        /\ Failed(c, "DPYC membership check failed") /\ Alone(c)
        /\ calls[c].supply = SUPPLY_USER_ID
        /\ calls[c].fee_sats > 0 /\ calls[c].amount_sats > calls[c].fee_sats
        /\ HasEvent(c, "rollback_debit")

\* C2: with an upstream chain, when the operator's balance covers the fee
\* but the supply is below amount_sats, the call fails with "Insufficient
\* upstream supply", the operator's balance is back at its pre-call value and
\* the supply balance is unchanged.
C2_ShortSupplyRestoresOperator ==
    \A c \in Calls :
        ( /\ Done(c) /\ Alone(c) /\ Configured /\ Upstream
          /\ calls[c].amount_sats > 0
          /\ calls[c].pre[calls[c].operator_id] >= calls[c].fee_sats
          /\ calls[c].pre[SUPPLY_USER_ID] < calls[c].amount_sats )
        => /\ calls[c].outcome = "failure"
           /\ calls[c].error = "Insufficient upstream supply"
           /\ BalanceOf(calls[c].operator_id) = calls[c].pre[calls[c].operator_id]
           /\ BalanceOf(SUPPLY_USER_ID) = calls[c].pre[SUPPLY_USER_ID]

C2_Witness ==
    \E c \in Calls :
        /\ Failed(c, "Insufficient upstream supply") /\ Alone(c)
        /\ calls[c].fee_sats > 0
        /\ calls[c].pre[calls[c].operator_id] >= calls[c].fee_sats
        /\ calls[c].pre[SUPPLY_USER_ID] > 0

\* C3: under any interleaving of calls for one operator, the operator's
\* balance is never negative and the fees of the successful calls never
\* exceed the funds the operator deposited.
C3_OperatorNeverOverdrawn ==
    \A o \in Operators :
        /\ BalanceOf(o) >= 0
        /\ issuedFees[o] <= ledgers[o].total_deposited_api_sats

C3_Witness ==
    \E c, d \in Calls :
        /\ c # d /\ calls[c].operator_id = calls[d].operator_id
        /\ calls[c].overlapped /\ calls[d].overlapped
        /\ calls[c].outcome = "success"
        /\ Failed(d, "Insufficient credit balance")
        /\ ledgers[calls[c].operator_id].total_deposited_api_sats = calls[c].fee_sats
        /\ calls[d].pre[calls[d].operator_id] >= calls[d].fee_sats

\* C4: under any interleaving of calls in a deployment with an upstream
\* chain, the supply balance is never negative and the amounts of the
\* successful calls never exceed the supply funds credited.
C4_SupplyNeverOverdrawn ==
    /\ BalanceOf(SUPPLY_USER_ID) >= 0
    /\ Upstream => issuedAmount <= ledgers[SUPPLY_USER_ID].total_deposited_api_sats

C4_Witness ==
    \E c, d \in Calls :
        /\ c # d /\ calls[c].operator_id # calls[d].operator_id
        /\ calls[c].overlapped /\ calls[d].overlapped
        /\ calls[c].outcome = "success"
        /\ Failed(d, "Insufficient upstream supply")
        /\ calls[d].pre[SUPPLY_USER_ID] >= calls[d].amount_sats

\* C5: once the operator debit of a call has succeeded, the call ends either
\* with a certificate returned or with every debit it made credited back.
C5_DebitEndsIssuedOrRolledBack ==
    \A c \in Calls :
        (Done(c) /\ HasEvent(c, "debit")) =>
            \/ calls[c].outcome = "success"
            \/ \A k \in AccountKeys : NetDebited(calls[c].trace, k) = 0

\* C6: when a call rolls back both debits, the supply credit-back comes
\* before the operator credit-back (the reverse of the debit order).
C6_SupplyCreditBackFirst ==
    \A c \in Calls :
        \A i, j \in DOMAIN calls[c].trace :
            ( /\ calls[c].trace[i].op = "rollback_debit"
              /\ calls[c].trace[i].acct = SUPPLY_USER_ID
              /\ calls[c].trace[j].op = "rollback_debit"
              /\ calls[c].trace[j].acct = calls[c].operator_id )
            => i < j

\* C7: with membership enforcement enabled, a call signs a certificate and
\* returns success only if its check_membership consulted a member list
\* whose first record for the operator is active; a failed fetch, an absent
\* member or a non-active status never leads to issuance.
C7_IssuanceOnlyForActiveMember ==
    settings.dpyc_enforce_membership =>
        \A c \in Calls :
            (calls[c].pc = "flush" \/ calls[c].outcome = "success" \/ calls[c].jti # 0)
            => /\ calls[c].consulted.present
               /\ ActiveIn(calls[c].consulted.members, calls[c].operator_id)

C7_Witness ==
    /\ settings.dpyc_enforce_membership
    /\ \E c, d \in Calls :
          /\ calls[c].outcome = "success"
          /\ Failed(d, "DPYC membership check failed")
          /\ calls[d].consulted.present

\* C8: every failure of certify_credits is a structured result with
\* success=false; no exception leaves certify_credits.
C8_NoExceptionEscapes ==
    \A c \in Calls : Done(c) => calls[c].outcome \in {"success", "failure"}

\* C9: when the operator's balance is below the fee, the call fails with
\* "Insufficient credit balance" and changes no balance, rolls nothing back,
\* never reads or debits the supply account, never queries the registry,
\* records no jti and signs nothing.
C9_ShortBalanceTouchesNothing ==
    \A c \in Calls :
        /\ Failed(c, "Insufficient credit balance") =>
              /\ calls[c].outcome = "failure"
              /\ calls[c].jti = 0
              /\ calls[c].supply = None
              /\ ~calls[c].consulted.present
              /\ \A i \in DOMAIN calls[c].trace :
                    /\ calls[c].trace[i].op \in {"get", "debit_refused"}
                    /\ calls[c].trace[i].acct = calls[c].operator_id
              /\ Alone(c) => BalancesAsBefore(c)
              /\ OthersIdle(c) => Untouched
        /\ ( /\ Done(c) /\ Alone(c) /\ Configured /\ calls[c].amount_sats > 0
             /\ calls[c].pre[calls[c].operator_id] < calls[c].fee_sats )
           => Failed(c, "Insufficient credit balance")

C9_Witness ==
    \E c \in Calls :
        /\ Failed(c, "Insufficient credit balance") /\ OthersIdle(c)
        /\ Upstream /\ settings.dpyc_enforce_membership
        /\ BalanceOf(SUPPLY_USER_ID) >= calls[c].amount_sats

\* C10: a call with amount_sats <= 0 is rejected before any state change: no
\* ledger account is read or debited, no jti is recorded, nothing is signed.
C10_NonPositiveAmountRejectedFirst ==
    \A c \in Calls :
        (calls[c].pc # "idle" /\ calls[c].amount_sats <= 0) =>
            /\ Failed(c, "amount_sats must be positive.")
            /\ calls[c].outcome = "failure"
            /\ calls[c].trace = <<>>
            /\ calls[c].jti = 0
            /\ calls[c].fee_sats = 0
            /\ Alone(c) => BalancesAsBefore(c)
            /\ OthersIdle(c) => Untouched

C10_Witness ==
    \E c \in Calls :
        /\ Done(c) /\ calls[c].amount_sats < 0 /\ OthersIdle(c) /\ Configured
        /\ BalanceOf(calls[c].operator_id) > 0

\* f = max(min_cost, ceil(a * rate / 100)), said without division: f is at
\* least the minimum, never under-collects, and is the least such integer
IsExactFee(f, a, rate, min_cost) ==
    /\ f >= min_cost
    /\ f * 100 >= a * rate
    /\ f = min_cost \/ (f - 1) * 100 < a * rate

C12_NetIsAmountLessFee ==
    /\ \A cert \in certs :
          cert.net_sats = cert.amount_sats - cert.tax_paid_sats
    /\ \A c \in Calls :
          calls[c].outcome = "success" =>
              LET call == calls[c] IN
              /\ call.net_sats = call.amount_sats - call.fee_sats
              /\ IsExactFee(call.fee_sats, call.amount_sats,
                            settings.tax_rate_percent, settings.tax_min_sats)
              /\ \E cert \in certs :
                    /\ cert.jti = call.jti
                    /\ cert.amount_sats = call.amount_sats
                    /\ cert.tax_paid_sats = call.fee_sats
                    /\ cert.net_sats = call.net_sats
    /\ harness.op = "create_certificate_claims" =>
          /\ harness.value.amount_sats = harness.arg[2]
          /\ harness.value.tax_paid_sats = harness.arg[3]
          /\ harness.value.net_sats = harness.arg[2] - harness.arg[3]

C12_Witness ==
    \E c \in Calls :
        /\ calls[c].outcome = "success"
        /\ calls[c].fee_sats > calls[c].amount_sats
        /\ calls[c].net_sats < 0
        /\ \E cert \in certs : cert.jti = calls[c].jti /\ cert.net_sats < 0

\* C13: with an upstream authority configured, a successful call debits the
\* supply account by exactly amount_sats and the operator account by exactly
\* fee_sats.
C13_UpstreamSuccessDebitsAmountAndFee ==
    \A c \in Calls :
        (calls[c].outcome = "success" /\ Upstream) =>
            LET call == calls[c] IN
            /\ call.supply = SUPPLY_USER_ID
            /\ NetDebited(call.trace, SUPPLY_USER_ID) = call.amount_sats
            /\ NetDebited(call.trace, call.operator_id) = call.fee_sats
            /\ Alone(c) =>
                 /\ BalanceOf(SUPPLY_USER_ID)
                        = call.pre[SUPPLY_USER_ID] - call.amount_sats
                 /\ BalanceOf(call.operator_id)
                        = call.pre[call.operator_id] - call.fee_sats

C13_Witness ==
    \E c \in Calls :
        /\ calls[c].outcome = "success" /\ Upstream /\ Alone(c)
        /\ calls[c].amount_sats > calls[c].fee_sats
        /\ settings.dpyc_enforce_membership

\* C14: without an upstream authority, certify_credits never reads, debits,
\* credits or marks dirty the supply account.
C14_NoUpstreamNeverTouchesSupply ==
    ~Upstream =>
        /\ ledgers[SUPPLY_USER_ID] = Funded(0)
        /\ SUPPLY_USER_ID \notin dirty
        /\ \A c \in Calls :
              /\ calls[c].supply = None
              /\ \A i \in DOMAIN calls[c].trace :
                    calls[c].trace[i].acct # SUPPLY_USER_ID

C14_Witness ==
    /\ ~Upstream
    /\ \E c \in Calls : calls[c].outcome = "success"
    /\ \E c \in Calls :
          /\ Failed(c, "DPYC membership check failed")
          /\ HasEvent(c, "rollback_debit")

\* C15: when flush_user returns False (the operator's account stays dirty),
\* the call still returns success with the signed certificate and no debit
\* is rolled back.
C15_FlushFailureStillSucceeds ==
    [][\A c \in Calls :
          ( /\ calls[c].pc = "flush" /\ calls'[c].pc = "done"
            /\ calls[c].operator_id \in dirty' )
          => /\ calls'[c].outcome = "success"
             /\ Certificate(calls[c]) \in certs'
             /\ ledgers' = ledgers
             /\ calls'[c].trace = calls[c].trace]_vars

C15_Witness ==
    \E c \in Calls :
        /\ calls[c].outcome = "success" /\ OthersIdle(c)
        /\ calls[c].operator_id \in dirty
        /\ Certificate(calls[c]) \in certs
        /\ calls[c].fee_sats > 0
        /\ BalanceOf(calls[c].operator_id)
               = calls[c].pre[calls[c].operator_id] - calls[c].fee_sats

\* account k is handed to cache.flush_user after the call's sign step
FlushedAfterSigning(c, k) ==
    \E i, j \in DOMAIN calls[c].trace :
        /\ i < j
        /\ calls[c].trace[i].op = "sign"
        /\ calls[c].trace[j].op = "flush_user" /\ calls[c].trace[j].acct = k

\* C16: after signing, a successful call requests durable persistence of the
\* operator account's state and, when an upstream is configured, also of the
\* supply account's.
C16_PersistsOperatorAndSupplyAfterSigning ==
    \A c \in Calls :
        calls[c].outcome = "success" =>
            /\ FlushedAfterSigning(c, calls[c].operator_id)
            /\ Upstream => FlushedAfterSigning(c, SUPPLY_USER_ID)

\* C17: certify_credits is not idempotent: two successful calls with the
\* same operator and amount debit the fee twice and return two distinct
\* jti; no jti is issued twice, so the tracker accepts the jti of every call.
C17_EachCallDebitsAndIssuesAfresh ==
    /\ \A c, d \in Calls :
          (c # d /\ calls[c].jti # 0 /\ calls[d].jti # 0) =>
              calls[c].jti # calls[d].jti
    /\ \A x, y \in certs : x.jti = y.jti => x = y
    /\ \A i \in DOMAIN seen : seen[i].jti < next_jti
    /\ check_and_record(seen, next_jti, now,
                        settings.certificate_ttl_seconds).accepted
    /\ \A c, d \in Calls :
          ( /\ c # d
            /\ calls[c].outcome = "success" /\ calls[d].outcome = "success"
            /\ calls[c].operator_id = calls[d].operator_id
            /\ calls[c].amount_sats = calls[d].amount_sats )
          => LET o == calls[c].operator_id IN
             /\ calls[c].fee_sats = calls[d].fee_sats
             /\ BalanceOf(o) = calls[CallOrder[1]].pre[o] - 2 * calls[c].fee_sats
             /\ issuedFees[o] = 2 * calls[c].fee_sats

C17_Witness ==
    \E c, d \in Calls :
        /\ c # d
        /\ calls[c].outcome = "success" /\ calls[d].outcome = "success"
        /\ calls[c].operator_id = calls[d].operator_id
        /\ calls[c].amount_sats = calls[d].amount_sats
        /\ calls[c].fee_sats > 0
        /\ Len(seen) = 2

\* the tracker holds x with first_seen less than ttl ago
SeenWithinTtl(x, ttl) ==
    \E i \in DOMAIN seen : seen[i].jti = x /\ now - seen[i].ts < ttl

\* C18: check_and_record(x) returns True when x was not recorded, False
\* while now - first_seen < ttl, and True again once now - first_seen >= ttl,
\* when it records x anew with the current time; entries younger than the
\* TTL stay recorded.
C18_ReplayRejectedOnlyWithinTtl ==
    [][(harness'.n = harness.n + 1 /\ harness'.op = "check_and_record") =>
          LET x == harness'.arg
              ttl == settings.certificate_ttl_seconds
              ofX(entries) == {i \in DOMAIN entries : entries[i].jti = x}
          IN /\ harness'.value = ~SeenWithinTtl(x, ttl)
             /\ \A i \in DOMAIN seen :
                   now - seen[i].ts < ttl =>
                       \E j \in DOMAIN seen' : seen'[j] = seen[i]
             /\ Cardinality(ofX(seen')) = 1
             /\ harness'.value =>
                   seen'[Len(seen')] = [jti |-> x, ts |-> now]]_vars

C18_Witness ==
    /\ harness.op = "check_and_record" /\ harness.value = FALSE
    /\ harness.n = MaxDirectCalls
    /\ \E i \in DOMAIN seen : seen[i].jti = harness.arg /\ seen[i].ts < now
    /\ Len(seen) = 2

\* the tracker's entry for the call's jti was not recorded by the call:
\* check_and_record(jti) found it and returned False
JtiRejected(c) ==
    \E i \in DOMAIN seen :
        /\ seen[i].jti = calls[c].jti
        /\ seen[i].ts # calls[c].expiration - settings.certificate_ttl_seconds

\* C19: the replay tracker never vetoes issuance: whatever the tracker holds
\* and whatever check_and_record returns, a call that reaches it signs and
\* succeeds with its certificate and its fee debited, and a call with a
\* positive amount and a sufficient balance succeeds.
C19_TrackerNeverVetoes ==
    \A c \in Calls :
        /\ HasEvent(c, "check_and_record") =>
              /\ HasEvent(c, "sign")
              /\ calls[c].pc \in {"flush", "done"}
              /\ calls[c].outcome \in {"none", "success"}
              /\ NetDebited(calls[c].trace, calls[c].operator_id) = calls[c].fee_sats
              /\ Done(c) => Certificate(calls[c]) \in certs
        /\ ( /\ Done(c) /\ Alone(c) /\ calls[c].amount_sats > 0
             /\ calls[c].pre[calls[c].operator_id] >= calls[c].fee_sats
             /\ ~Upstream /\ ~settings.dpyc_enforce_membership )
           => calls[c].outcome = "success"

C19_Witness ==
    \E c \in Calls :
        /\ calls[c].outcome = "success" /\ JtiRejected(c)
        /\ Certificate(calls[c]) \in certs

\* no GET has succeeded yet, or the cache was invalidated since the last one
\* that did, or that one was started at least ttl ago
FetchDue ==
    \/ harness.fetch_ok_at = -1
    \/ harness.invalidated
    \/ now - harness.fetch_ok_at >= settings.dpyc_registry_cache_ttl_seconds

\* C20: in sequential lookups, a check_membership made within the TTL of the
\* last successful fetch is served without a GET, so two such calls cost one
\* fetch; a call made when now - fetch_time >= ttl, or the first call after
\* invalidate_cache(), issues a new GET.
C20_FetchOnlyWhenDue ==
    [][( /\ harness.pc = "idle"
         /\ \/ harness'.pc = "fetch"
            \/ harness'.n = harness.n + 1 /\ harness'.op = "check_membership" )
       => /\ (harness'.pc = "fetch") <=> FetchDue
          /\ (harness'.pc = "idle") => ~harness'.fetched /\ reg_cache' = reg_cache]_vars

C20_Witness ==
    /\ harness.op = "check_membership" /\ harness.pc = "idle"
    /\ ~harness.fetched
    /\ harness.fetch_ok_at >= 0 /\ now > harness.fetch_ok_at
    /\ harness.value = "member"

\* C21: a failed registry fetch (HTTP error, parse error or unacceptable
\* payload shape) leaves the cached snapshot and its fetch timestamp as they
\* were, and the lookup raises RegistryError even when the stale snapshot
\* lists the member as active.
C21_FailedFetchKeepsSnapshot ==
    [][\A resp \in Responses :
          (~ParseResponse(resp).ok /\ LookupEnd(resp)) =>
              /\ reg_cache' = reg_cache
              /\ reg_cache_time' = reg_cache_time
              /\ harness'.fetched
              /\ harness'.value = "RegistryError"]_vars

C21_Witness ==
    /\ harness.op = "check_membership" /\ harness.pc = "idle"
    /\ harness.fetched /\ harness.value = "RegistryError"
    /\ reg_cache.present /\ ActiveIn(reg_cache.members, harness.arg)
    /\ reg_cache_time = harness.fetch_ok_at /\ reg_cache_time < now

\* C22: when the signing key is not configured, certify_credits fails before
\* any ledger account is read or debited: the error is raised with no
\* partial debit.
C22_MissingKeyFailsBeforeLedger ==
    \A c \in Calls :
        ( /\ calls[c].pc # "idle" /\ calls[c].amount_sats > 0
          /\ settings.tollbooth_nostr_operator_nsec = "" )
        => /\ Done(c)
           /\ calls[c].outcome = "raised"
           /\ calls[c].error = "ValueError: TOLLBOOTH_NOSTR_OPERATOR_NSEC is required."
           /\ calls[c].trace = <<>>
           /\ BalancesAsBefore(c)
           /\ dirty = {}
           /\ OthersIdle(c) => Untouched

C22_Witness ==
    \E c \in Calls :
        /\ Done(c) /\ calls[c].outcome = "raised"
        /\ settings.tollbooth_nostr_operator_nsec = ""
        /\ settings.neon_database_url # "" /\ Upstream
        /\ BalanceOf(calls[c].operator_id) >= calls[c].amount_sats
        /\ BalanceOf(SUPPLY_USER_ID) >= calls[c].amount_sats

\* the event is a valid certificate of the signer published as identity
VerifiesAgainst(event, identity) ==
    event.body.pubkey = identity /\ event_verify(event)

\* C23 as stated: a certificate produced by a signer, under either scheme,
\* verifies against that signer's published identity and against no other.
C23_VerifiesExactlyAgainstOwnIdentity ==
    /\ harness.op = "sign_certificate" =>
          \A k \in SigningKeys :
              (verify_certificate(harness.value,
                                  public_key_pem(AuthoritySigner(k)), now) = "ok")
              <=> k = harness.arg
    /\ harness.op = "sign_certificate_event" =>
          \A k \in SigningKeys :
              VerifiesAgainst(harness.value, AuthorityNostrSigner(k).pubkey_hex)
              <=> k = harness.arg

\* C23, amended: a Nostr event certificate verifies against its signer's
\* identity and against no other; a JWT certificate verifies against its
\* signer's identity only while the clock is before its exp (afterwards
\* verify_certificate raises ExpiredSignatureError) and is rejected with
\* InvalidSignatureError against any other identity.
C23_VerifiesAgainstOwnIdentityUntilExp ==
    /\ harness.op = "sign_certificate" =>
          \A k \in SigningKeys :
              LET r == verify_certificate(harness.value,
                                          public_key_pem(AuthoritySigner(k)), now)
              IN /\ (r = "ok") <=> (k = harness.arg /\ now < harness.value.claims.exp)
                 /\ (r = "ExpiredSignatureError") <=>
                        (k = harness.arg /\ now >= harness.value.claims.exp)
                 /\ (r = "InvalidSignatureError") <=> k # harness.arg
    /\ harness.op = "sign_certificate_event" =>
          \A k \in SigningKeys :
              VerifiesAgainst(harness.value, AuthorityNostrSigner(k).pubkey_hex)
              <=> k = harness.arg

C23_Witness ==
    /\ harness.op = "sign_certificate"
    /\ now >= harness.value.claims.exp
    /\ verify_certificate(harness.value,
                          public_key_pem(AuthoritySigner(harness.arg)), now)
           = "ExpiredSignatureError"
    /\ \E k \in SigningKeys :
          verify_certificate(harness.value, public_key_pem(AuthoritySigner(k)), now)
             = "InvalidSignatureError"

\* this step is a call of the tool
ToolStep(tool) == harness'.n = harness.n + 1 /\ harness'.op = tool

\* the caller's active session is the configured admin's
IsAdmin(caller) ==
    /\ settings.dpyc_authority_npub # ""
    /\ caller \in Users
    /\ _dpyc_sessions[caller] = settings.dpyc_authority_npub

\* C24: report_upstream_purchase credits the supply account, by exactly
\* amount_sats, only when amount_sats > 0, an admin npub is configured and
\* the caller's active session npub is the admin npub; in every other case
\* it answers success=false and leaves the supply (and every ledger) as it
\* was. An admin's positive report on a configured vault is credited.
C24_OnlyAdminCreditsSupply ==
    [][ToolStep("report_upstream_purchase") =>
              LET a == harness'.arg.arg
                  before == ledgers[SUPPLY_USER_ID].balance_api_sats
                  after == ledgers'[SUPPLY_USER_ID].balance_api_sats
                  admin == a > 0 /\ IsAdmin(harness'.arg.caller)
              IN /\ after # before => admin /\ after = before + a
                 /\ harness'.value.success => admin /\ after = before + a
                 /\ \A o \in Operators : ledgers'[o] = ledgers[o]
                 /\ ~admin => /\ ~harness'.value.success
                              /\ ~harness'.value.raised
                              /\ harness'.value.ops = <<>>
                              /\ ledgers' = ledgers
                              /\ dirty' = dirty
                 /\ (admin /\ settings.neon_database_url # "") =>
                        /\ harness'.value.success
                        /\ harness'.value.credited_sats = a
                        /\ harness'.value.balance_sats = after
                        /\ after = before + a]_vars

C24_Witness ==
    /\ harness.op = "report_upstream_purchase"
    /\ harness.value.success
    /\ harness.value.credited_sats = 2
    /\ IsAdmin(harness.arg.caller)
    /\ ledgers[SUPPLY_USER_ID].balance_api_sats = harness.value.balance_sats
    /\ \E u \in Users : _dpyc_sessions[u] \notin {None, settings.dpyc_authority_npub}

SessionTools == {"purchase_credits", "check_payment", "check_balance", "operator_status"}

\* C25: purchase_credits, check_payment, check_balance and operator_status
\* called by a user without an active session (never registered, or the
\* sessions were cleared by shutdown) answer success=false with the
\* 'No DPYC identity active' error and perform no ledger or payment
\* operation. (A request that carries no user id at all is refused the
\* same way, with the 'Cannot identify user' error.)
C25_NoSessionNoOperation ==
    [][\A tool \in SessionTools :
          (ToolStep(tool) /\ (harness'.arg.caller \in Users =>
                                 _dpyc_sessions[harness'.arg.caller] = None)) =>
              /\ ~harness'.value.success
              /\ ~harness'.value.raised
              /\ harness'.value.error =
                    IF harness'.arg.caller \in Users THEN NoIdentity ELSE NoUser
              /\ harness'.value.ops = <<>>
              /\ ledgers' = ledgers
              /\ dirty' = dirty
              /\ _reconciled_users' = _reconciled_users]_vars

C25_Witness ==
    /\ harness.op \in SessionTools
    /\ harness.arg.caller \in Users
    /\ harness.value.error = NoIdentity
    /\ _shutdown_triggered
    /\ harness.n = 2
    /\ settings.btcpay_host # "" /\ settings.neon_database_url # ""
    /\ settings.tollbooth_nostr_operator_nsec # ""

WellFormed(npub) == StartsWithNpub1(npub) /\ NpubLen(npub) >= MinNpubLen

\* C26: register_operator never changes a ledger balance. With a
\* well-formed npub it binds the caller's session to the npub and (on a
\* configured vault) returns that npub as operator_id with the ledger's
\* current balance; repeating the call in the same session returns the same
\* operator_id and balance and leaves the session map as it is. With a
\* malformed npub it answers success=false and leaves the session map and
\* the ledgers unchanged.
C26_RegisterIsIdempotent ==
    [][ToolStep("register_operator") =>
          LET caller == harness'.arg.caller
              npub == harness'.arg.arg
              reply == harness'.value
          IN /\ ledgers' = ledgers
             /\ (WellFormed(npub) /\ caller \in Users) =>
                    /\ _dpyc_sessions' = [_dpyc_sessions EXCEPT ![caller] = npub]
                    /\ settings.neon_database_url # "" =>
                          /\ reply.success
                          /\ reply.operator_id = npub
                          /\ reply.balance_sats = BalanceOf(npub)
                    /\ ( /\ harness.op = "register_operator"
                         /\ harness.arg = harness'.arg
                         /\ _dpyc_sessions[caller] = npub ) =>
                          /\ reply.success = harness.value.success
                          /\ reply.operator_id = harness.value.operator_id
                          /\ reply.balance_sats = harness.value.balance_sats
                    /\ _dpyc_sessions[caller] = npub => _dpyc_sessions' = _dpyc_sessions
             /\ ~WellFormed(npub) =>
                    /\ ~reply.success
                    /\ ~reply.raised
                    /\ reply.error = "Invalid npub format."
                    /\ _dpyc_sessions' = _dpyc_sessions
                    /\ dirty' = dirty]_vars

C26_Witness ==
    /\ harness.op = "register_operator"
    /\ harness.n = 3
    /\ harness.value.success
    /\ harness.value.balance_sats = 2
    /\ BalanceOf(harness.value.operator_id) = 2
    /\ _dpyc_sessions[harness.arg.caller] = harness.value.operator_id

\* the positions of the call's trace that hold operation op on account k
EventsOf(c, op, k) ==
    {i \in DOMAIN calls[c].trace :
        calls[c].trace[i].op = op /\ calls[c].trace[i].acct = k}

\* C27: every compensating rollback of a call carries the reason code and
\* the amount of the debit it reverses ('certify_credits' and fee_sats on
\* the operator account, 'certify_supply' and amount_sats on the supply
\* account), that debit succeeded earlier in the same call, and no debit is
\* reversed twice.
C27_RollbackMirrorsItsDebit ==
    \A c \in Calls : \A k \in AccountKeys :
        /\ Cardinality(EventsOf(c, "rollback_debit", k))
              <= Cardinality(EventsOf(c, "debit", k))
        /\ Cardinality(EventsOf(c, "rollback_debit", k)) <= 1
        /\ \A j \in EventsOf(c, "rollback_debit", k) :
              LET rb == calls[c].trace[j]
              IN /\ \E i \in EventsOf(c, "debit", k) :
                       /\ i < j
                       /\ calls[c].trace[i].reason = rb.reason
                       /\ calls[c].trace[i].amount = rb.amount
                 /\ IF k = SUPPLY_USER_ID
                    THEN rb.reason = "certify_supply"
                         /\ rb.amount = calls[c].amount_sats
                    ELSE k = calls[c].operator_id
                         /\ rb.reason = "certify_credits"
                         /\ rb.amount = calls[c].fee_sats

C27_Witness ==
    \E c \in Calls :
        /\ Failed(c, "DPYC membership check failed")
        /\ calls[c].fee_sats # calls[c].amount_sats
        /\ EventsOf(c, "rollback_debit", calls[c].operator_id) # {}
        /\ EventsOf(c, "rollback_debit", SUPPLY_USER_ID) # {}
        /\ BalancesAsBefore(c)

\* the saga steps of a call's trace, in the order they were taken: the
\* successful debits, the membership check, the jti recording, the signing
\* and the flush
IsSagaStep(e) ==
    e.op \in {"debit", "check_membership", "check_and_record", "sign", "flush_user"}
StepName(e) ==
    IF e.op # "debit" THEN e.op
    ELSE IF e.acct = SUPPLY_USER_ID THEN "debit_supply" ELSE "debit_operator"
StepsOf(c) ==
    LET sel == SelectSeq(calls[c].trace, IsSagaStep)
    IN [i \in DOMAIN sel |-> StepName(sel[i])]

\* the order of the steps under the deployment's settings
SagaOrder ==
    <<"debit_operator">>
    \o (IF Upstream THEN <<"debit_supply">> ELSE <<>>)
    \o (IF settings.dpyc_enforce_membership THEN <<"check_membership">> ELSE <<>>)
    \o <<"check_and_record", "sign", "flush_user">>

\* C28: within one call the steps are taken in the order fee computation,
\* operator debit, supply debit (if an upstream is configured), membership
\* check (if enforced), jti recording, signing, flush: the steps a call has
\* taken are always an initial part of that order (so the supply debit
\* follows a successful operator debit, the membership check follows all
\* configured debits, the jti is recorded before signing and the flush
\* follows signing), the operator debit charges the fee computed before
\* it, and a successful call has taken them all.
C28_StepsFollowSagaOrder ==
    \A c \in Calls :
        LET steps == StepsOf(c) IN
        /\ Len(steps) <= Len(SagaOrder)
        /\ steps = SubSeq(SagaOrder, 1, Len(steps))
        /\ \A i \in EventsOf(c, "debit", calls[c].operator_id) :
              /\ calls[c].trace[i].amount = calls[c].fee_sats
              /\ calls[c].fee_sats =
                    compute(certify_pricing(settings), calls[c].amount_sats)
        /\ (Done(c) /\ calls[c].outcome = "success") => steps = SagaOrder

C28_Witness ==
    \E c \in Calls :
        /\ Done(c) /\ calls[c].outcome = "success"
        /\ Upstream /\ settings.dpyc_enforce_membership
        /\ Len(StepsOf(c)) = 6
        /\ calls[c].overlapped

\* the entry is within its TTL at time t
Live(e, t, ttl) == t - e.ts < ttl

RECURSIVE LiveEntries(_, _, _)
\* the entries that are live at time t, in their order
LiveEntries(entries, t, ttl) ==
    IF entries = <<>> THEN <<>>
    ELSE IF Live(Head(entries), t, ttl)
         THEN <<Head(entries)>> \o LiveEntries(Tail(entries), t, ttl)
    ELSE LiveEntries(Tail(entries), t, ttl)

InTimeOrder(entries) ==
    \A i, j \in DOMAIN entries : i < j => entries[i].ts <= entries[j].ts
RecordedOnce(entries) ==
    \A i, j \in DOMAIN entries : entries[i].jti = entries[j].jti => i = j

\* C29: the tracker's entries, in insertion order, have non-decreasing
\* first-seen timestamps and each id at most once; no step removes or
\* re-timestamps an entry that is still within its TTL, and a rejected
\* duplicate leaves the tracker as pruning left it; so pruning from the
\* oldest end up to the first live entry removes all and only the expired
\* entries, at the time of the step and at every later time.
C29_PruneFromOldestIsExact ==
    [][LET ttl == settings.certificate_ttl_seconds IN
       /\ InTimeOrder(seen') /\ RecordedOnce(seen')
       /\ \A t \in now'..(MaxClock + 1) :
             _prune(seen', t, ttl) = LiveEntries(seen', t, ttl)
       /\ \A i \in DOMAIN seen :
             Live(seen[i], now, ttl) => \E j \in DOMAIN seen' : seen'[j] = seen[i]
       /\ (harness'.n = harness.n + 1 /\ harness'.value = FALSE) =>
             /\ seen' = LiveEntries(seen, now, ttl)
             /\ \E i \in DOMAIN seen :
                   seen[i].jti = harness'.arg /\ Live(seen[i], now, ttl)]_vars

C29_Witness ==
    /\ harness.op = "check_and_record" /\ harness.value = FALSE
    /\ Len(seen) = 2
    /\ seen[1].jti = harness.arg
    /\ ~Live(seen[1], now, settings.certificate_ttl_seconds)
    /\ Live(seen[2], now, settings.certificate_ttl_seconds)
    /\ _prune(seen, now, settings.certificate_ttl_seconds) = <<seen[2]>>

\* C30: right after a check_and_record call every retained entry satisfies
\* now - first_seen < ttl; entries leave the tracker only through that
\* call's pruning, so between calls the tracker (and its size) may still
\* hold entries that have expired since.
C30_RetainedEntriesAreLiveAfterCall ==
    [][/\ harness'.n = harness.n + 1 =>
             /\ \A i \in DOMAIN seen' :
                   now' - seen'[i].ts < settings.certificate_ttl_seconds
             /\ Len(seen') = Len(LiveEntries(seen, now, settings.certificate_ttl_seconds))
                              + (IF harness'.value THEN 1 ELSE 0)
       /\ harness'.n = harness.n => seen' = seen]_vars

C30_Witness ==
    /\ harness.op = "check_and_record"
    /\ Len(seen) = 2
    /\ \A i \in DOMAIN seen : now - seen[i].ts >= settings.certificate_ttl_seconds
    /\ seen[1].ts < seen[2].ts

\* the first record of the list that carries npub has status 'active'
FirstIsActive(members, npub) ==
    \E i \in DOMAIN members :
        /\ members[i].npub = npub /\ members[i].status = "active"
        /\ \A j \in 1..(i - 1) : members[j].npub # npub

\* the lookup that ends in this step answers as C31 says it should, given
\* whether a member list was obtained and which
AnswersAsSpecified(obtained, members) ==
    harness'.value = IF obtained /\ FirstIsActive(members, harness'.arg)
                     THEN "member" ELSE "RegistryError"

\* C31: check_membership(npub) returns the member record if and only if a
\* member list was obtained (live cache, or a successful fetch of a bare
\* list or of an object with a 'members' list) and the first record with
\* that npub has status 'active'; in every other case it raises
\* RegistryError.
C31_MemberIffActiveElseRegistryError ==
    [][/\ \A resp \in Responses :
             LookupEnd(resp) =>
                 AnswersAsSpecified(ParseResponse(resp).ok, ParseResponse(resp).data)
       /\ (harness.pc = "idle" /\ harness'.n = harness.n + 1
             /\ harness'.op = "check_membership") =>
             AnswersAsSpecified(TRUE, reg_cache.members)]_vars

\* C32: every certificate's expires-at is its issued-at plus the configured
\* TTL: exp = iat + ttl_seconds in the claims create_certificate_claims
\* builds, and in the event certify_credits has signed the expiration tag
\* is created_at plus certificate_ttl_seconds.
C32_ExpiresAtIsIssuedAtPlusTtl ==
    [][/\ \A key \in SigningKeys, o \in Operators, a \in {1, 2}, ttl \in SignTtls :
             SignJwt(key, o, a, ttl) =>
                 harness'.value.claims.exp = harness'.value.claims.iat + ttl
       /\ (harness'.n = harness.n + 1 /\ harness'.op = "certify_credits") =>
             harness'.value.body.tags.expiration =
                 harness'.value.body.created_at + settings.certificate_ttl_seconds]_vars

\* what the registry could hold: nothing, or any member list
RegistryContents == {NoCache} \cup {Cached(ml) : ml \in MemberLists}

\* two results of a segment agree in everything but the registry's cache
SameButRegistry(a, b) ==
    /\ a.call = b.call /\ a.ledgers = b.ledgers /\ a.dirty = b.dirty
    /\ a.seen = b.seen /\ a.next_jti = b.next_jti

\* C33: with membership enforcement disabled certify_credits never queries
\* the registry (no check_membership, no GET awaited, the cache never
\* filled) and its outcome does not depend on the registry: whatever the
\* registry held, fresh or not, each segment of a call would end the same.
C33_DisabledEnforcementIgnoresRegistry ==
    ~settings.dpyc_enforce_membership =>
        /\ reg_cache = NoCache
        /\ \A c \in Calls :
              /\ calls[c].pc # "fetch"
              /\ ~HasEvent(c, "check_membership")
              /\ calls[c].consulted = NoCache
              /\ \A x \in RegistryContents :
                    LET s == State(c)
                        sx == [s EXCEPT !.reg_cache = x, !.reg_cache_time = now]
                    IN /\ calls[c].pc = "get_ledger" =>
                            SameButRegistry(OperatorDebitStep(s), OperatorDebitStep(sx))
                       /\ calls[c].pc = "get_supply" =>
                            SameButRegistry(SupplyDebitStep(s), SupplyDebitStep(sx))

C33_Witness ==
    \E c \in Calls :
        /\ ~settings.dpyc_enforce_membership
        /\ Upstream
        /\ Done(c) /\ calls[c].outcome = "success"
        /\ calls[c].overlapped
        /\ StepsOf(c) = <<"debit_operator", "debit_supply", "check_and_record",
                          "sign", "flush_user">>

\* no certify_credits call is in flight
NoneInFlight == \A c \in Calls : calls[c].pc \in {"idle", "done"}

\* what the account was funded with
FundedWith(k) == ledgers[k].total_deposited_api_sats

\* C34: conservation under interleaving: once no call is in flight, each
\* operator's balance is its funded amount minus the fees of its successful
\* calls and the supply balance is its funded amount minus the amounts of
\* all successful calls (nothing, without an upstream); calls that did not
\* succeed contribute nothing.
C34_BalancesAreFundsMinusSuccessfulCalls ==
    NoneInFlight =>
        /\ \A o \in Operators : BalanceOf(o) = FundedWith(o) - issuedFees[o]
        /\ BalanceOf(SUPPLY_USER_ID) =
              FundedWith(SUPPLY_USER_ID) - (IF Upstream THEN issuedAmount ELSE 0)

\* C35: whenever an account's in-memory balance differs from the state last
\* written to the vault the account is marked dirty (so that a later flush
\* writes it), also when a background flush ran between a debit and its
\* rollback.
C35_UnwrittenBalanceIsDirty ==
    \A k \in AccountKeys :
        ledgers[k].balance_api_sats # vault[k].balance_api_sats => k \in dirty

RECURSIVE HeldUpTo(_, _)
\* what the first i calls hold of account k: the debits, less the rollbacks,
\* of every call that has not ended in success
HeldUpTo(i, k) ==
    IF i = 0 THEN 0
    ELSE LET d == CallOrder[i] IN
         (IF Done(d) /\ calls[d].outcome = "success" THEN 0
          ELSE NetDebited(calls[d].trace, k)) + HeldUpTo(i - 1, k)

Held(k) == HeldUpTo(Len(CallOrder), k)

\* funds minus the debits of the calls that ended in success
Committed(k) ==
    IF k = SUPPLY_USER_ID
    THEN FundedWith(k) - (IF Upstream THEN issuedAmount ELSE 0)
    ELSE FundedWith(k) - issuedFees[k]

\* C36 as stated: once every call has ended (none by an exception), a call
\* refused for insufficient operator balance or insufficient upstream supply
\* found the committed balance (funds minus the debits of the successful
\* calls) below what it needed; a debit that was rolled back refused no call.
C36_RefusedOnlyWhenCommittedShort ==
    (NoneInFlight /\ \A d \in Calls : calls[d].outcome # "raised") =>
        \A c \in Calls :
            /\ Failed(c, "Insufficient credit balance") =>
                   Committed(calls[c].operator_id) < calls[c].fee_sats
            /\ Failed(c, "Insufficient upstream supply") =>
                   Committed(SUPPLY_USER_ID) < calls[c].amount_sats

\* C36: a call's debit is refused exactly when the balance in memory is below
\* what it needs, and that balance is the committed balance less what the
\* calls that have not ended in success still hold, a debit that is rolled
\* back later included.
C36_RefusedWhenHeldBalanceShort ==
    [][\A c \in Calls :
         /\ (calls[c].pc = "get_ledger" /\ calls'[c].pc # "get_ledger") =>
               LET op == calls[c].operator_id IN
                 /\ BalanceOf(op) = Committed(op) - Held(op)
                 /\ (calls'[c].error = "Insufficient credit balance")
                       <=> (BalanceOf(op) < calls[c].fee_sats)
         /\ (calls[c].pc = "get_supply" /\ calls'[c].pc # "get_supply") =>
                 /\ BalanceOf(SUPPLY_USER_ID) =
                       Committed(SUPPLY_USER_ID) - Held(SUPPLY_USER_ID)
                 /\ (calls'[c].error = "Insufficient upstream supply")
                       <=> (BalanceOf(SUPPLY_USER_ID) < calls[c].amount_sats)
      ]_vars

\* a call was refused for want of balance while the other call held the fee
\* it gave back afterwards: the committed balance covered the refused call
C36_Witness ==
    \E c, d \in Calls :
        /\ c # d /\ calls[c].operator_id = calls[d].operator_id
        /\ Failed(c, "Insufficient credit balance")
        /\ Failed(d, "DPYC membership check failed")
        /\ HasEvent(d, "rollback_debit")
        /\ Committed(calls[c].operator_id) >= calls[c].fee_sats

\* C37: under concurrent certify_credits calls that check membership on the
\* one registry, the cached snapshot never regresses: the cache timestamp
\* (the start of the fetch that produced the cached list) never decreases, so
\* a list whose fetch started earlier never replaces one whose fetch started
\* later.
C37_CacheNeverRegresses ==
    [][reg_cache_time' >= reg_cache_time]_vars

\* C38: after invalidate_cache() has returned, the next check_membership
\* call that starts performs a backing fetch whatever the TTL, also when a
\* fetch that started before the invalidation completes after it: the first
\* lookup to start after the invalidation is not answered from the cache.
C38_NextLookupAfterInvalidationFetches ==
    [][\A d \in Calls :
         ( /\ harness.invalidated /\ harness' = harness
           /\ ~LookupStarted(d) /\ LookupStarted(d)'
           /\ \A e \in Calls \ {d} : LookupStarted(e) => e \in harness.value )
         => calls'[d].pc = "fetch"
      ]_vars

\* check_and_record(jti), called now, would return False
WouldReject(jti) ==
    ~check_and_record(seen, jti, now, settings.certificate_ttl_seconds).accepted

\* C39: the replay window covers the certificate lifetime: the tracker's TTL
\* is the certificate TTL, so at every time before the expiration of a
\* certificate this process issued, check_and_record of its jti would return
\* False.
C39_JtiRetainedUntilExpiration ==
    \A cert \in certs : now < cert.expiration => WouldReject(cert.jti)

\* two certificates are issued and unexpired, time has passed since the first
\* was issued, the tracker was pruned when the second was recorded, and both
\* ids would be refused
C39_Witness ==
    \E a, b \in certs :
        /\ a.jti < b.jti
        /\ now < a.expiration /\ now < b.expiration
        /\ WouldReject(a.jti) /\ WouldReject(b.jti)
        /\ Len(seen) = 2
        /\ now > a.expiration - settings.certificate_ttl_seconds

\* C40: certify_credits debits the ledger account of operator_id only when
\* the calling user has an active DPYC session bound to that npub: whenever a
\* call has debited, some user's session (the caller's) is bound to the
\* call's operator_id, so no caller causes a fee debit on another operator's
\* account.
C40_DebitOnlyWithSessionOfOperator ==
    \A c \in Calls :
        HasEvent(c, "debit") =>
            \E u \in Users : _dpyc_sessions[u] = calls[c].operator_id

====
